---- MODULE Spec2Model ----
(***************************************************************************)
(* The n8n-style BFS workflow engine of src/src/workflow_engine.py and the *)
(* data types of src/src/workflow_types.py, as a state machine.            *)
(*                                                                         *)
(* A behaviour is one call of WorkflowEngine.execute() over one built      *)
(* Workflow.  The definition (nodes, connections, pinData) is drawn in     *)
(* Init; the result of every awaited step function is drawn when the step  *)
(* returns.                                                                *)
(***************************************************************************)
EXTENDS Integers, Sequences, FiniteSets, TLC

\* ───── bounds of the model ─────
NumNodes == 3
MaxConns == 3
MaxIdx   == 1
MaxPin   == 1
MaxFeatures == 2
MaxSteps == 12
MaxConnsTwice == 2
MaxConnsTyped == 2
MaxFeaturesDiamond == 2
MaxConnsEvents == 1
MaxFeaturesEvents == 1
MaxConnsPair == 2
MaxFeaturesPair == 1
MaxNodesPair == 2
MaxConnsDangling == 2
MaxFeaturesDangling == 1
MaxEdges == 2
MaxConnsIndex == 2
MaxIdxBelow == 1
MaxIdxAbove == 2
MaxConnsCyclic == 3
MaxFeaturesCyclic == 1
MaxConnsLoop == 3
MaxNodesRuns == 2
MaxConnsRuns == 1
MaxFeaturesRuns == 1
MaxTime == 3
TicksPerMs == 2

\* the fan-out/fan-in scenario a -> [b, c] -> d has four nodes
DiamondNodes == 4

\* the node ids of every definition are among Nodes
LastNode == IF NumNodes >= DiamondNodes THEN NumNodes ELSE DiamondNodes

Nodes == 1..LastNode

\* ───── workflow_types.py: enumerations ─────
NodeStatus      == {"idle", "running", "success", "error", "skipped", "waiting"}
ExecutionStatus == {"new", "running", "success", "error", "cancelled", "waiting"}
ConnectionType  == {"main", "error", "ai_tool"}

EVENT_NODE_STARTED      == "node:started"
EVENT_NODE_FINISHED     == "node:finished"
EVENT_NODE_ERROR        == "node:error"
EVENT_NODE_SKIPPED      == "node:skipped"
EVENT_WORKFLOW_STARTED  == "workflow:started"
EVENT_WORKFLOW_FINISHED == "workflow:finished"

\* ───── workflow_types.py: NodeExecutionData ─────
\* A payload is None or a NodeExecutionData holding a list of items.  An item
\* records where it was made: the empty sentinel {"json": {}}, a pinned
\* record of a node, the result of a node's step, or {error, node}.
None == [isNone |-> TRUE, items |-> <<>>]

NodeExecutionData(items) == [isNone |-> FALSE, items |-> items]

Item(tag, n, data) == [tag |-> tag, node |-> n, data |-> data]

from_single(data) == NodeExecutionData(<<data>>)

empty == NodeExecutionData(<<Item("empty", 0, "")>>)

\* Python truth of a slot: None is false, and so is a NodeExecutionData with
\* no items (the dataclass defines __len__).
Truthy(p) == ~p.isNone /\ Len(p.items) > 0

\* ExecuteData.get_main_input
get_main_input(execute_data) ==
    LET main == execute_data.main
    IN  IF Len(main) > 0 /\ Truthy(main[1]) THEN main[1] ELSE empty

ExecuteData(node_id, main, prev) == [node_id |-> node_id, main |-> main, source |-> prev]

\* ───── the state ─────
VARIABLES
    definition,    \* the WorkflowDefinition the Workflow was built from
    nodes,         \* Workflow.nodes: the runtime fields of every WorkflowNode
    exec_ctx,      \* the ExecutionContext of the run
    events,        \* the on_event calls made so far, in order
    pc,            \* where the caller stands: new, idle (built), loop, await, done
    execute_data,  \* the queue entry whose step is awaited
    hist,          \* history of the run (invocations, step calls)
    alt,           \* a second run of execute() over a Workflow of its own, built
                   \* from the same definition: the run the first is compared with
    on_event,      \* the callback handed to execute(): the event types it throws on
    body,          \* the JSON that WorkflowDefinition.from_json was handed
    time,          \* time.time(), in clock readings
    _runs          \* WorkflowEngine._runs: per run id the call whose context it holds

vars == <<definition, nodes, exec_ctx, events, pc, execute_data, hist, alt, on_event, body,
          time, _runs>>

\* ───── workflow_engine.py: Workflow (the built graph) ─────
\* A definition is [nodes, disabled, registered, pin_data, connections]: the ids
\* of its nodes (in the order of the node list), per node the disabled flag and
\* whether _STEP_REGISTRY holds its type, pin_data as a function from the
\* pinned node ids to the number of pinned records, and the connection list in
\* registration order.

\* mutant: every connection is indexed
Registered_Any(def, k) == TRUE

\* Workflow.__init__ line 110: only connections between defined nodes are indexed.
Registered(def, k) ==
    /\ def.connections[k].source \in def.nodes
    /\ def.connections[k].target \in def.nodes

ConnIds(def) == {k \in 1..Len(def.connections) : Registered(def, k)}

RECURSIVE SeqOfSet(_, _)
\* the elements of a set of numbers below bound hi, ascending
SeqOfSet(S, hi) ==
    IF hi = 0 THEN <<>>
    ELSE IF hi \in S THEN Append(SeqOfSet(S, hi - 1), hi) ELSE SeqOfSet(S, hi - 1)

\* connections_by_source[node_id][output_type], as connection ids in order
connections_by_source(def, node_id, output_type) ==
    SeqOfSet({k \in ConnIds(def) :
                 /\ def.connections[k].source = node_id
                 /\ def.connections[k].sourceOutputType = output_type},
             Len(def.connections))

\* connections_by_dest[node_id][input_type], as connection ids in order
connections_by_dest(def, node_id, input_type) ==
    SeqOfSet({k \in ConnIds(def) :
                 /\ def.connections[k].target = node_id
                 /\ def.connections[k].targetInputType = input_type},
             Len(def.connections))

\* mutant: only connections into the main input channel are looked at
get_start_nodes_MainOnly(def) ==
    SeqOfSet({n \in def.nodes :
                 \A k \in ConnIds(def) :
                     def.connections[k].target = n
                         => def.connections[k].targetInputType # "main"},
             LastNode)

\* Workflow.get_start_nodes: the nodes that are no key of connections_by_dest
get_start_nodes(def) ==
    SeqOfSet({n \in def.nodes : \A k \in ConnIds(def) : def.connections[k].target # n},
             LastNode)

\* mutant: the downstream connections are walked last to first
get_downstream_Reversed(def, node_id, output_type) ==
    LET conns == connections_by_source(def, node_id, output_type)
    IN  [i \in 1..Len(conns) |-> conns[Len(conns) + 1 - i]]

\* Workflow.get_downstream
get_downstream(def, node_id, output_type) ==
    connections_by_source(def, node_id, output_type)

\* mutant: one upstream is counted at most
get_upstream_count_One(def, node_id, input_type) ==
    IF connections_by_dest(def, node_id, input_type) = <<>> THEN 0 ELSE 1

\* Workflow.get_upstream_count
get_upstream_count(def, node_id, input_type) ==
    Len(connections_by_dest(def, node_id, input_type))

\* ───── workflow_engine.py: WorkflowEngine._propagate_output ─────
Max(a, b) == IF a >= b THEN a ELSE b
Min(a, b) == IF a <= b THEN a ELSE b

Remove(f, x) == [y \in DOMAIN f \ {x} |-> f[y]]

\* mutant: the buffer is sized by the distinct upstream nodes
NewWaiting_Distinct(def, target_id) ==
    LET upstream_count ==
            Cardinality({def.connections[k].source :
                            k \in {c \in ConnIds(def) :
                                      /\ def.connections[c].target = target_id
                                      /\ def.connections[c].targetInputType = "main"}})
    IN  [main     |-> [i \in 1..Max(upstream_count, 1) |-> None],
         needed   |-> upstream_count,
         received |-> 0]

\* lines 366-374: the waiting buffer of a target, allocated on first delivery
NewWaiting(def, target_id) ==
    LET upstream_count == get_upstream_count(def, target_id, "main")
    IN  [main     |-> [i \in 1..Max(upstream_count, 1) |-> None],
         needed   |-> upstream_count,
         received |-> 0]

\* lines 378-383: the delivery written into the buffer
Deliver(waiting, output_list, target_input_idx) ==
    LET idx == Min(target_input_idx, Len(waiting.main) - 1)
    IN  IF Len(output_list) > 0 /\ idx >= 0
        THEN [waiting EXCEPT !.main[idx + 1] = output_list[1],
                             !.received = @ + 1]
        ELSE waiting

\* mutant: the first delivery makes the target ready
Ready_First(waiting) == waiting.received >= 1

\* lines 385-389: all inputs have arrived
Ready(waiting) == waiting.received >= waiting.needed

\* history: connection k handed output_list to its target; written tells
\* whether an item was pushed or stored for the target
Delivery(k, output_list, written) ==
    [conn |-> k, list |-> output_list, written |-> written]

\* mutant: a disabled target is joined like any other
PropagateTo_Joined(def, ctx, node_id, output_list, k) ==
    LET target_id == def.connections[k].target
        target_input_idx == def.connections[k].targetInputIndex
        old == IF target_id \in DOMAIN ctx.waiting_execution
               THEN ctx.waiting_execution[target_id]
               ELSE NewWaiting(def, target_id)
        waiting == Deliver(old, output_list, target_input_idx)
        log == Append(ctx.log, Delivery(k, output_list, waiting # old))
    IN  IF Ready(waiting)
        THEN [ctx EXCEPT
                !.node_execution_stack =
                    Append(@, ExecuteData(target_id, waiting.main, node_id)),
                !.waiting_execution = Remove(@, target_id),
                !.log = log]
        ELSE [ctx EXCEPT
                !.waiting_execution =
                    [t \in DOMAIN @ \cup {target_id} |->
                        IF t = target_id THEN waiting ELSE @[t]],
                !.log = log]

\* lines 350-400: one downstream connection of the propagating node.  The
\* context carries the list of the deliveries made (log), which is history
\* and no field of ExecutionContext.
PropagateTo(def, ctx, node_id, output_list, k) ==
    LET target_id == def.connections[k].target
        target_input_idx == def.connections[k].targetInputIndex
    IN  IF target_id \notin def.nodes
        THEN ctx
        ELSE IF def.disabled[target_id]
        THEN [ctx EXCEPT
                !.node_execution_stack =
                    Append(@, ExecuteData(target_id, output_list, node_id)),
                !.log = Append(@, Delivery(k, output_list, TRUE))]
        ELSE
          LET old == IF target_id \in DOMAIN ctx.waiting_execution
                     THEN ctx.waiting_execution[target_id]
                     ELSE NewWaiting(def, target_id)
              waiting == Deliver(old, output_list, target_input_idx)
              log == Append(ctx.log, Delivery(k, output_list, waiting # old))
          IN  IF Ready(waiting)
              THEN [ctx EXCEPT
                      !.node_execution_stack =
                          Append(@, ExecuteData(target_id, waiting.main, node_id)),
                      !.waiting_execution = Remove(@, target_id),
                      !.log = log]
              ELSE [ctx EXCEPT
                      !.waiting_execution =
                          [t \in DOMAIN @ \cup {target_id} |->
                              IF t = target_id THEN waiting ELSE @[t]],
                      !.log = log]

RECURSIVE PropagateList(_, _, _, _, _)
\* line 350: for target_id, target_input_idx in downstream
PropagateList(def, ctx, node_id, output_list, downstream) ==
    IF downstream = <<>> THEN ctx
    ELSE PropagateList(def,
                       PropagateTo(def, ctx, node_id, output_list, Head(downstream)),
                       node_id, output_list, Tail(downstream))

RECURSIVE _propagate_output(_, _, _, _)
\* line 347: for output_type, output_list in output.items(); an output is the
\* list of its (type, list) entries in the order of the dict
_propagate_output(def, ctx, node_id, output) ==
    IF output = <<>> THEN ctx
    ELSE _propagate_output(
             def,
             PropagateList(def, ctx, node_id, Head(output).list,
                           get_downstream(def, node_id, Head(output).type)),
             node_id, Tail(output))

\* mutant: no entry is recorded
_save_run_data_None(ctx, node_id, node) == ctx

\* WorkflowEngine._save_run_data
_save_run_data(ctx, node_id, node) ==
    [ctx EXCEPT !.run_data[node_id] =
        Append(@, [status |-> node.status, error |-> node.error])]

\* mutant: the callback is not called
_emit_Silent(evs, event, node_id, data) == evs

\* _emit: the callback is called with (event, node_id, data)
_emit(evs, event, node_id, data) ==
    Append(evs, [event |-> event, node_id |-> node_id, data |-> data])

\* mutant: _emit calls the callback without try/except
Escapes_Uncaught(cb, event) == event \in cb

\* _emit lines 453-457: an exception of callback cb on this event leaves _emit;
\* the call is made inside try/except Exception, so none does
Escapes(cb, event) == FALSE

\* the calls of the callback up to the first one whose exception leaves _emit
RECURSIVE UpToEscape(_, _)
UpToEscape(cb, evs) ==
    IF evs = <<>> THEN <<>>
    ELSE IF Escapes(cb, Head(evs).event) THEN <<Head(evs)>>
         ELSE <<Head(evs)>> \o UpToEscape(cb, Tail(evs))

\* the state a handler leaves that calls _emit for evs outside a try block and
\* otherwise ends in h: an exception that left _emit would leave execute()
Emitting(s, evs, h) ==
    IF \E i \in 1..Len(evs) : Escapes(s.on_event, evs[i].event)
    THEN [s EXCEPT !.events = @ \o UpToEscape(s.on_event, evs), !.pc = "raised"]
    ELSE h

\* ───── the step functions (external to the engine) ─────
\* What an awaited step function can hand back: a bare NodeExecutionData, or a
\* dict with main/error keys whose lists may hold None or be empty.
StepResults == {"ned", "null", "erronly", "emptymain", "emptyerr"}

\* the message of the exception a failing step raises
StepMessage == "step failed"

\* the message of the IndexError of line 290
IndexMessage == "list index out of range"

\* the message of the exception a failing callback raises
CallbackMessage == "callback failed"

EventTypes == {EVENT_NODE_STARTED, EVENT_NODE_FINISHED, EVENT_NODE_ERROR,
               EVENT_NODE_SKIPPED, EVENT_WORKFLOW_STARTED, EVENT_WORKFLOW_FINISHED}

result_of(node_id) == from_single(Item("out", node_id, ""))

Entry(type, list) == [type |-> type, list |-> list]

\* mutant: whatever a step returns is routed to the error channel
Normalize_OnError(node_id, r) == <<Entry("error", <<result_of(node_id)>>)>>

\* lines 276-284: the output a step result is normalised to
Normalize(node_id, r) ==
    CASE r = "ned"       -> <<Entry("main", <<result_of(node_id)>>)>>
      [] r = "null"      -> <<Entry("main", <<None>>)>>
      [] r = "erronly"   -> <<Entry("error", <<result_of(node_id)>>)>>
      [] r = "emptymain" -> <<Entry("main", <<>>)>>
      [] r = "emptyerr"  -> <<Entry("main", <<result_of(node_id)>>), Entry("error", <<>>)>>

\* line 290: output.get("main", [NodeExecutionData.empty()]) raises IndexError
\* on [0] when the step handed back an empty main list
MainOutRaises(output) ==
    \E i \in 1..Len(output) : output[i].type = "main" /\ output[i].list = <<>>

\* mutant: the pinned records are dropped for the empty sentinel
pinned_data_Sentinel(def, node_id) == empty

\* lines 232-233: NodeExecutionData(items=pin)
pinned_data(def, node_id) ==
    NodeExecutionData([i \in 1..def.pin_data[node_id] |-> Item("pin", node_id, "")])

\* mutant: the failure is handed on over main
error_output_OnMain(node_id, message) ==
    <<Entry("main", <<from_single(Item("error", node_id, message))>>)>>

\* mutant: the error branch hands on the bare message
error_output_Bare(node_id, message) ==
    <<Entry("error", <<from_single(Item("error", 0, message))>>)>>

\* lines 316-318: the payload of the error branch
error_output(node_id, message) ==
    <<Entry("error", <<from_single(Item("error", node_id, message))>>)>>

\* ───── history of the run (not program state) ─────
Pushed(before, after) ==
    SubSeq(after.node_execution_stack,
           Len(before.node_execution_stack) + 1, Len(after.node_execution_stack))

Delivered(before, after) == SubSeq(after.log, Len(before.log) + 1, Len(after.log))

Count(seq, n) == Cardinality({i \in 1..Len(seq) : seq[i].node_id = n})

NoInvocation ==
    [node |-> 0, kind |-> "none", result |-> "", input |-> ExecuteData(0, <<>>, 0),
     output |-> <<>>, pushed |-> <<>>, delivered |-> <<>>, events |-> <<>>]

\* the history after an invocation of node_id has ended: what it was handed,
\* what it put out, the queue entries it pushed, the deliveries it made and
\* the events it emitted
Record(h, node_id, kind, result, entry, output, before, after, evs) ==
    [h EXCEPT
       !.enqueued = [n \in Nodes |-> @[n] + Count(Pushed(before, after), n)],
       !.results  = IF result = "" THEN @
                    ELSE [@ EXCEPT ![node_id] = Append(@, result)],
       !.last     = [node      |-> node_id,
                     kind      |-> kind,
                     result    |-> result,
                     input     |-> entry,
                     output    |-> output,
                     pushed    |-> Pushed(before, after),
                     delivered |-> Delivered(before, after),
                     events    |-> evs]]

Popped(h, node_id) ==
    [h EXCEPT !.steps = @ + 1, !.dequeued[node_id] = @ + 1]

\* ───── workflow_engine.py: WorkflowEngine.execute ─────
\* The handlers of execute() are functions of the state of a run s =
\* [nodes, exec_ctx, events, pc, execute_data, hist] over a definition def.
NewNode == [status |-> "idle", output_data |-> <<>>, error |-> "None"]

NewContext ==
    [run_id               |-> 0,
     status               |-> "new",
     node_execution_stack |-> <<>>,
     waiting_execution    |-> <<>>,
     run_data             |-> [n \in Nodes |-> <<>>],
     log                  |-> <<>>]

RECURSIVE Seed(_, _)
\* lines 196-206: one entry per start node that is not disabled
Seed(def, start_nodes) ==
    IF start_nodes = <<>> THEN <<>>
    ELSE IF def.disabled[Head(start_nodes)]
         THEN Seed(def, Tail(start_nodes))
         ELSE <<ExecuteData(Head(start_nodes), <<empty>>, 0)>>
                  \o Seed(def, Tail(start_nodes))

\* mutant: every node is queued at the start
execute_begin_SeedAll(def, s) ==
    LET stack == Seed(def, SeqOfSet(def.nodes, LastNode))
    IN  [s EXCEPT
           !.exec_ctx = [NewContext EXCEPT !.status = "running",
                                           !.node_execution_stack = stack],
           !.events   = _emit(@, EVENT_WORKFLOW_STARTED, 0, ""),
           !.hist     = [@ EXCEPT !.enqueued = [n \in Nodes |-> Count(stack, n)]],
           !.pc       = "loop"]

\* lines 183-206: the context is created RUNNING, workflow:started is emitted
\* and the start nodes are queued
execute_begin(def, s) ==
    LET stack == Seed(def, get_start_nodes(def))
    IN  Emitting(s, _emit(<<>>, EVENT_WORKFLOW_STARTED, 0, ""),
        [s EXCEPT
           !.exec_ctx = [NewContext EXCEPT !.status = "running",
                                           !.node_execution_stack = stack],
           !.events   = _emit(@, EVENT_WORKFLOW_STARTED, 0, ""),
           !.hist     = [@ EXCEPT !.enqueued = [n \in Nodes |-> Count(stack, n)]],
           !.pc       = "loop"])

\* mutant: the loop pops while a step is awaited
CanPop_Eager(s) ==
    /\ s.pc \in {"loop", "await"}
    /\ s.exec_ctx.node_execution_stack # <<>>
    /\ s.hist.steps < MaxSteps

\* lines 211-213: the loop pops the head of the queue
CanPop(s) ==
    /\ s.pc = "loop"
    /\ s.exec_ctx.node_execution_stack # <<>>
    /\ s.hist.steps < MaxSteps

HeadEntry(s) == Head(s.exec_ctx.node_execution_stack)

\* mutant: the head is read and left in the queue
AfterPop_Peek(s) == s.exec_ctx

AfterPop(s) == [s.exec_ctx EXCEPT !.node_execution_stack = Tail(@)]

\* line 220
IsDisabled(def, node_id) == def.disabled[node_id]

\* mutant: pin_data is not consulted
IsPinned_Never(def, node_id) == FALSE

\* line 231
IsPinned(def, node_id) == node_id \in DOMAIN def.pin_data

\* lines 255-257
HasStep(def, node_id) == def.registered[node_id]

\* mutant: a disabled node is a sink
process_disabled_Sink(def, s) ==
    LET node_id == HeadEntry(s).node_id
        evs     == _emit(<<>>, EVENT_NODE_SKIPPED, node_id, "disabled")
    IN  [s EXCEPT
           !.events   = @ \o evs,
           !.exec_ctx = AfterPop(s),
           !.hist     = Record(Popped(@, node_id), node_id, "disabled", "",
                               HeadEntry(s), <<>>, AfterPop(s), AfterPop(s), evs)]

\* lines 220-228: a disabled node passes its main input on
process_disabled(def, s) ==
    LET node_id == HeadEntry(s).node_id
        output  == <<Entry("main", <<get_main_input(HeadEntry(s))>>)>>
        evs     == _emit(<<>>, EVENT_NODE_SKIPPED, node_id, "disabled")
        after   == _propagate_output(def, AfterPop(s), node_id, output)
    IN  Emitting(s, evs,
        [s EXCEPT
           !.events   = @ \o evs,
           !.exec_ctx = after,
           !.hist     = Record(Popped(@, node_id), node_id, "disabled", "",
                               HeadEntry(s), output, AfterPop(s), after, evs)])

\* lines 230-246: a pinned node takes its output from pin_data
process_pinned(def, s) ==
    LET node_id == HeadEntry(s).node_id
        output  == <<Entry("main", <<pinned_data(def, node_id)>>)>>
        node    == [s.nodes[node_id] EXCEPT !.status = "success",
                                            !.output_data = output]
        evs     == _emit(<<>>, EVENT_NODE_FINISHED, node_id, "pinned")
        saved   == _save_run_data(AfterPop(s), node_id, node)
        after   == _propagate_output(def, saved, node_id, output)
    IN  Emitting(s, evs,
        [s EXCEPT
           !.nodes[node_id] = node,
           !.events   = @ \o evs,
           !.exec_ctx = after,
           !.hist     = Record(Popped(@, node_id), node_id, "pinned", "",
                               HeadEntry(s), output, AfterPop(s), after, evs)])

\* mutant: a node without a step hands nothing on
process_unregistered_Sink(def, s) ==
    LET node_id == HeadEntry(s).node_id
        evs     == _emit(_emit(<<>>, EVENT_NODE_STARTED, node_id, ""),
                         EVENT_NODE_SKIPPED, node_id, "unregistered")
    IN  [s EXCEPT
           !.nodes[node_id].status = "skipped",
           !.events   = @ \o evs,
           !.exec_ctx = AfterPop(s),
           !.hist     = Record(Popped(@, node_id), node_id, "unregistered", "",
                               HeadEntry(s), <<>>, AfterPop(s), AfterPop(s), evs)]

\* lines 248-269: no step is registered for the node's type
process_unregistered(def, s) ==
    LET node_id == HeadEntry(s).node_id
        output  == <<Entry("main", <<empty>>)>>
        evs     == _emit(_emit(<<>>, EVENT_NODE_STARTED, node_id, ""),
                         EVENT_NODE_SKIPPED, node_id, "unregistered")
        after   == _propagate_output(def, AfterPop(s), node_id, output)
    IN  Emitting(s, evs,
        [s EXCEPT
           !.nodes[node_id].status = "skipped",
           !.events   = @ \o evs,
           !.exec_ctx = after,
           !.hist     = Record(Popped(@, node_id), node_id, "unregistered", "",
                               HeadEntry(s), output, AfterPop(s), after, evs)])

\* mutant: the step is called without node:started
start_step_Unannounced(def, s) ==
    LET node_id == HeadEntry(s).node_id
    IN  [s EXCEPT
           !.nodes[node_id].status = "running",
           !.exec_ctx     = AfterPop(s),
           !.execute_data = HeadEntry(s),
           !.hist         = [Popped(@, node_id) EXCEPT !.invoked[node_id] = @ + 1],
           !.pc           = "await"]

\* lines 248-273: the node is RUNNING, node:started is emitted and its step
\* function is called and awaited
start_step(def, s) ==
    LET node_id == HeadEntry(s).node_id
    IN  Emitting(s, _emit(<<>>, EVENT_NODE_STARTED, node_id, ""),
        [s EXCEPT
           !.nodes[node_id].status = "running",
           !.events       = _emit(@, EVENT_NODE_STARTED, node_id, ""),
           !.exec_ctx     = AfterPop(s),
           !.execute_data = HeadEntry(s),
           !.hist         = [Popped(@, node_id) EXCEPT !.invoked[node_id] = @ + 1],
           !.pc           = "await"])

\* mutant: the failure of a step aborts the run
step_failed_Abort(def, s, node, message, r) ==
    LET node_id == s.execute_data.node_id
        evs     == _emit(<<>>, EVENT_NODE_ERROR, node_id, message)
        after   == [s.exec_ctx EXCEPT !.node_execution_stack = <<>>]
    IN  [s EXCEPT
           !.nodes[node_id] = [node EXCEPT !.status = "error", !.error = message],
           !.events   = @ \o evs,
           !.exec_ctx = after,
           !.hist     = Record(@, node_id, "error", r, s.execute_data, <<>>,
                               after, after,
                               _emit(<<>>, EVENT_NODE_STARTED, node_id, "") \o evs),
           !.pc       = "loop"]

\* lines 303-321: the except branch, entered with the node as the try block left it
step_failed(def, s, node, message, r) ==
    LET node_id == s.execute_data.node_id
        output  == error_output(node_id, message)
        evs     == _emit(<<>>, EVENT_NODE_ERROR, node_id, message)
        after   == _propagate_output(def, s.exec_ctx, node_id, output)
    IN  Emitting(s, evs,
        [s EXCEPT
           !.nodes[node_id] = [node EXCEPT !.status = "error", !.error = message],
           !.events   = @ \o evs,
           !.exec_ctx = after,
           !.hist     = Record(@, node_id, "error", r, s.execute_data, output,
                               s.exec_ctx, after,
                               _emit(<<>>, EVENT_NODE_STARTED, node_id, "") \o evs),
           !.pc       = "loop"])

\* mutant: the output is handed on before status and output_data are assigned
step_returned_Unstored(def, s, r) ==
    LET node_id == s.execute_data.node_id
        output  == Normalize(node_id, r)
        node    == [s.nodes[node_id] EXCEPT !.status = "success",
                                            !.output_data = output]
        evs     == _emit(<<>>, EVENT_NODE_FINISHED, node_id, "")
        saved   == _save_run_data(s.exec_ctx, node_id, node)
        after   == _propagate_output(def, saved, node_id, output)
    IN  IF MainOutRaises(output)
        THEN step_failed(def, s, node, IndexMessage, r)
        ELSE [s EXCEPT
                !.events   = @ \o evs,
                !.exec_ctx = after,
                !.hist     = Record(@, node_id, "success", r, s.execute_data, output,
                                     saved, after,
                                     _emit(<<>>, EVENT_NODE_STARTED, node_id, "") \o evs),
                !.pc       = "loop"]

\* lines 273-301: the step returned r
step_returned(def, s, r) ==
    LET node_id == s.execute_data.node_id
        output  == Normalize(node_id, r)
        node    == [s.nodes[node_id] EXCEPT !.status = "success",
                                            !.output_data = output]
        evs     == _emit(<<>>, EVENT_NODE_FINISHED, node_id, "")
        saved   == _save_run_data(s.exec_ctx, node_id, node)
        after   == _propagate_output(def, saved, node_id, output)
    IN  IF MainOutRaises(output)
        THEN step_failed(def, s, node, IndexMessage, r)
        ELSE IF Escapes(s.on_event, EVENT_NODE_FINISHED)
        THEN step_failed(def, [s EXCEPT !.events = @ \o evs], node, CallbackMessage, r)
        ELSE [s EXCEPT
                !.nodes[node_id] = node,
                !.events   = @ \o evs,
                !.exec_ctx = after,
                !.hist     = Record(@, node_id, "success", r, s.execute_data, output,
                                     saved, after,
                                     _emit(<<>>, EVENT_NODE_STARTED, node_id, "") \o evs),
                !.pc       = "loop"]

\* lines 303-321: the step raised
step_raised(def, s) ==
    step_failed(def, s, s.nodes[s.execute_data.node_id], StepMessage, "raise")

\* mutant: the run reports the failure of a node
execute_end_Failing(s) ==
    LET status == IF \E n \in DOMAIN s.nodes : s.nodes[n].status = "error"
                  THEN "error" ELSE "success"
    IN  [s EXCEPT
           !.exec_ctx.status = status,
           !.events = _emit(@, EVENT_WORKFLOW_FINISHED, 0, status),
           !.pc     = "done"]

\* lines 323-333: the queue is empty
execute_end(s) ==
    Emitting(s, _emit(<<>>, EVENT_WORKFLOW_FINISHED, 0, "success"),
    [s EXCEPT
       !.exec_ctx.status = "success",
       !.events = _emit(@, EVENT_WORKFLOW_FINISHED, 0, "success"),
       !.pc     = "done"])

\* ───── workflow_engine.py: WorkflowEngine.to_json ─────
\* The nodes map of the serialized result, as the list of the (key, value)
\* pairs the dict comprehension of lines 435-447 yields.

\* mutant: the nodes are taken from the run data of the context
to_json_nodes_Executed(ctx, workflow_nodes) ==
    LET ran == SeqOfSet({n \in DOMAIN workflow_nodes : ctx.run_data[n] # <<>>}, LastNode)
    IN  [i \in 1..Len(ran) |->
            [key |-> ran[i],
             value |-> [id |-> ran[i], status |-> workflow_nodes[ran[i]].status,
                        error |-> workflow_nodes[ran[i]].error]]]

\* lines 435-447: for nid, n in workflow.nodes.items()
to_json_nodes(ctx, workflow_nodes) ==
    LET ids == SeqOfSet(DOMAIN workflow_nodes, LastNode)
    IN  [i \in 1..Len(ids) |->
            [key |-> ids[i],
             value |-> [id |-> ids[i], status |-> workflow_nodes[ids[i]].status,
                        error |-> workflow_nodes[ids[i]].error]]]

\* lines 432-434: the run's own fields
to_json(ctx, workflow_nodes) ==
    [status |-> ctx.status, nodes |-> to_json_nodes(ctx, workflow_nodes)]

\* ───── the run of execute() ─────
Run ==
    [nodes |-> nodes, exec_ctx |-> exec_ctx, events |-> events, pc |-> pc,
     execute_data |-> execute_data, hist |-> hist, on_event |-> on_event]

Becomes(s) ==
    /\ nodes' = s.nodes
    /\ exec_ctx' = s.exec_ctx
    /\ events' = s.events
    /\ pc' = s.pc
    /\ execute_data' = s.execute_data
    /\ hist' = s.hist

Execute ==
    /\ pc = "idle"
    /\ Becomes(execute_begin(definition, Run))
    /\ UNCHANGED <<definition, alt, on_event, body, time, _runs>>

ProcessDisabled ==
    /\ CanPop(Run)
    /\ IsDisabled(definition, HeadEntry(Run).node_id)
    /\ Becomes(process_disabled(definition, Run))
    /\ UNCHANGED <<definition, alt, on_event, body, time, _runs>>

ProcessPinned ==
    /\ CanPop(Run)
    /\ ~IsDisabled(definition, HeadEntry(Run).node_id)
    /\ IsPinned(definition, HeadEntry(Run).node_id)
    /\ Becomes(process_pinned(definition, Run))
    /\ UNCHANGED <<definition, alt, on_event, body, time, _runs>>

ProcessUnregistered ==
    /\ CanPop(Run)
    /\ ~IsDisabled(definition, HeadEntry(Run).node_id)
    /\ ~IsPinned(definition, HeadEntry(Run).node_id)
    /\ ~HasStep(definition, HeadEntry(Run).node_id)
    /\ Becomes(process_unregistered(definition, Run))
    /\ UNCHANGED <<definition, alt, on_event, body, time, _runs>>

StartStep ==
    /\ CanPop(Run)
    /\ ~IsDisabled(definition, HeadEntry(Run).node_id)
    /\ ~IsPinned(definition, HeadEntry(Run).node_id)
    /\ HasStep(definition, HeadEntry(Run).node_id)
    /\ Becomes(start_step(definition, Run))
    /\ UNCHANGED <<definition, alt, on_event, body, time, _runs>>

StepReturn ==
    /\ pc = "await"
    /\ \E r \in StepResults : Becomes(step_returned(definition, Run, r))
    /\ UNCHANGED <<definition, alt, on_event, body, time, _runs>>

StepRaise ==
    /\ pc = "await"
    /\ Becomes(step_raised(definition, Run))
    /\ UNCHANGED <<definition, alt, on_event, body, time, _runs>>

Complete ==
    /\ pc = "loop"
    /\ exec_ctx.node_execution_stack = <<>>
    /\ Becomes(execute_end(Run))
    /\ UNCHANGED <<definition, alt, on_event, body, time, _runs>>

Steps ==
    \/ Execute
    \/ ProcessDisabled
    \/ ProcessPinned
    \/ ProcessUnregistered
    \/ StartStep
    \/ StepReturn
    \/ StepRaise
    \/ Complete

\* ───── the definitions a run is checked over ─────
\* A definition is JSON whose optional fields have defaults (Workflow.__init__
\* lines 78-108): a node is enabled and not pinned, a connection leads from
\* main to main at input index 0.  The definitions checked are those with at
\* most MaxConns connections in which at most MaxFeatures optional settings
\* depart from the default.
Connection(src, dst, out_type, in_type, in_idx) ==
    [source |-> src, target |-> dst, sourceOutputType |-> out_type,
     targetInputType |-> in_type, targetInputIndex |-> in_idx]

\* the endpoints of a connection from a node to a later node: the graph is acyclic
ForwardPairs(m) == {p \in (1..m) \X (1..m) : p[1] < p[2]}

\* The engine reads the connection list only through connections_by_source
\* [src][type] and the length of connections_by_dest[dst][type], so the order
\* of two connections matters only when they share their source: lists are
\* taken with their sources in ascending order.
Grouped(pairs) ==
    \A i \in 1..Len(pairs) - 1 : pairs[i][1] <= pairs[i + 1][1]

PairLists(universe, conns) ==
    UNION {{pairs \in [1..len -> universe] : Grouped(pairs)} : len \in 0..conns}

Setting(f, at, v) == [f |-> f, at |-> at, v |-> v]

Settings(m, pairs) ==
    [f : {"disabled", "unregistered"}, at : 1..m, v : {0}]
      \cup [f : {"pinned"}, at : 1..m, v : 0..MaxPin]
      \cup [f : {"sourceOutputType", "targetInputType"}, at : 1..Len(pairs), v : {0}]
      \cup [f : {"targetInputIndex"}, at : 1..Len(pairs), v : 1..MaxIdx]

RECURSIVE SubsetsUpTo(_, _)
SubsetsUpTo(S, k) ==
    IF k = 0 THEN {{}}
    ELSE LET P == SubsetsUpTo(S, k - 1)
         IN  P \cup {p \cup {x} : p \in P, x \in S}

\* no field is set twice
Consistent(S) ==
    \A x, y \in S : x.f = y.f /\ x.at = y.at => x = y

Has(S, f, at) == \E x \in S : x.f = f /\ x.at = at

ValueOf(S, f, at) == (CHOOSE x \in S : x.f = f /\ x.at = at).v

\* the input channels other than main
OtherInput == [v \in {0, 1} |-> IF v = 0 THEN "error" ELSE "ai_tool"]

Build(m, pairs, S) ==
    [nodes       |-> 1..m,
     disabled    |-> [n \in Nodes |-> Has(S, "disabled", n)],
     registered  |-> [n \in Nodes |-> ~Has(S, "unregistered", n)],
     pin_data    |-> [n \in {x \in Nodes : Has(S, "pinned", x)} |->
                         ValueOf(S, "pinned", n)],
     connections |-> [k \in 1..Len(pairs) |->
                         Connection(pairs[k][1], pairs[k][2],
                             IF Has(S, "sourceOutputType", k) THEN "error" ELSE "main",
                             IF Has(S, "targetInputType", k)
                             THEN OtherInput[ValueOf(S, "targetInputType", k)]
                             ELSE "main",
                             IF Has(S, "targetInputIndex", k)
                             THEN ValueOf(S, "targetInputIndex", k) ELSE 0)]]

\* the definitions of m nodes with at most conns connections, whose endpoints
\* are in universe, and at most features settings off the default
DefinitionsWith(m, universe, conns, features) ==
    UNION {{Build(m, pairs, S) :
               S \in {T \in SubsetsUpTo(Settings(m, pairs), features) : Consistent(T)}} :
           pairs \in PairLists(universe, conns)}

DefinitionsOver(m, universe) == DefinitionsWith(m, universe, MaxConns, MaxFeatures)

Definitions(n) == UNION {DefinitionsOver(m, ForwardPairs(m)) : m \in 0..n}

NewHistory ==
    [steps     |-> 0,
     invoked   |-> [n \in Nodes |-> 0],
     dequeued  |-> [n \in Nodes |-> 0],
     enqueued  |-> [n \in Nodes |-> 0],
     results   |-> [n \in Nodes |-> <<>>],
     last      |-> NoInvocation]

\* the definition before build(): nodes with default fields, no connections
Blank == Build(0, <<>>, {})

\* a run that has not begun; spared names the node whose step is to succeed
NoRun ==
    [nodes |-> <<>>, exec_ctx |-> NewContext, events |-> <<>>, pc |-> "new",
     execute_data |-> ExecuteData(0, <<>>, 0), hist |-> NewHistory,
     on_event |-> {}, spared |-> 0]

\* no JSON has been parsed
NoData == [keys |-> {}, m |-> 0, S |-> {}, connections |-> <<>>, edges |-> <<>>]

\* WorkflowEngine.__init__: no workflow is built, no run exists
Init ==
    /\ definition = Blank
    /\ nodes = <<>>
    /\ exec_ctx = NewContext
    /\ events = <<>>
    /\ pc = "new"
    /\ execute_data = ExecuteData(0, <<>>, 0)
    /\ hist = NewHistory
    /\ alt = NoRun
    /\ on_event = {}
    /\ body = NoData
    /\ time = 0
    /\ _runs = <<>>

\* WorkflowEngine.build: the Workflow of a definition
BuildFrom(defs) ==
    /\ pc = "new"
    /\ definition' \in defs
    /\ nodes' = [n \in definition'.nodes |-> NewNode]
    /\ pc' = "idle"
    /\ UNCHANGED <<exec_ctx, events, execute_data, hist, alt, on_event, body, time, _runs>>

build == BuildFrom(Definitions(NumNodes))

Next == build \/ Steps

Spec == Init /\ [][Next]_vars

\* ───── runs over the fan-out/fan-in graph ─────
\* a -> b, a -> c, b -> d, c -> d in registration order, with at most
\* MaxFeaturesDiamond settings off the default, next to the definitions above
DiamondPairs == <<<<1, 2>>, <<1, 3>>, <<2, DiamondNodes>>, <<3, DiamondNodes>>>>

DefinitionsDiamond ==
    {Build(DiamondNodes, DiamondPairs, S) :
        S \in {T \in SubsetsUpTo(Settings(DiamondNodes, DiamondPairs), MaxFeaturesDiamond) :
                  Consistent(T)}}

buildDag == BuildFrom(Definitions(NumNodes) \cup DefinitionsDiamond)

NextDag == buildDag \/ Steps

SpecDag == Init /\ [][NextDag]_vars

\* ───── runs over definitions with every input channel ─────
\* The definitions in which every connection enters its target on any of the
\* input channels main, error and ai_tool, and at most one node is disabled,
\* pinned or of a type without a step.
InputSettings(pairs) == [f : {"targetInputType"}, at : 1..Len(pairs), v : {0, 1}]

NodeSettings(m) == [f : {"disabled", "unregistered", "pinned"}, at : 1..m, v : {0}]

DefinitionsTyped(n) ==
    UNION {UNION {{Build(m, pairs, S \cup D) :
                      S \in {T \in SUBSET InputSettings(pairs) : Consistent(T)},
                      D \in SubsetsUpTo(NodeSettings(m), 1)} :
                  pairs \in PairLists(ForwardPairs(m), MaxConnsTyped)} :
           m \in 0..n}

buildTyped == BuildFrom(DefinitionsTyped(NumNodes))

NextTyped == buildTyped \/ Steps

SpecTyped == Init /\ [][NextTyped]_vars

\* ───── a second run over the same definition ─────
\* Once the run has returned with a step that raised in node x, execute() is
\* called again over a fresh Workflow of the definition.  In this run the step
\* of x returns normally, the steps of the nodes that x does not reach do what
\* they did in the first run, and every other step does whatever it may.
RECURSIVE ReachFrom(_, _)
ReachFrom(def, S) ==
    LET T == S \cup {def.connections[k].target :
                        k \in {c \in ConnIds(def) : def.connections[c].source \in S}}
    IN  IF T = S THEN S ELSE ReachFrom(def, T)

\* the nodes a connection path leads to from x, x included
Reach(def, x) == ReachFrom(def, {x})

HasRaised(x) == \E i \in 1..Len(hist.results[x]) : hist.results[x][i] = "raise"

\* what the step awaited in the second run may do
AltOutcomes ==
    LET n == alt.execute_data.node_id
        i == Len(alt.hist.results[n]) + 1
    IN  IF n = alt.spared
        THEN {r \in StepResults : ~MainOutRaises(Normalize(n, r))}
        ELSE IF n \in Reach(definition, alt.spared) \/ i > Len(hist.results[n])
             THEN StepResults \cup {"raise"}
             ELSE {hist.results[n][i]}

AltBecomes(s) ==
    /\ alt' = s
    /\ UNCHANGED <<definition, nodes, exec_ctx, events, pc, execute_data, hist, on_event, body, time, _runs>>

AltExecute ==
    /\ pc = "done"
    /\ alt.pc = "new"
    /\ \E x \in definition.nodes :
          /\ HasRaised(x)
          /\ AltBecomes(execute_begin(definition,
                 [NoRun EXCEPT !.nodes = [n \in definition.nodes |-> NewNode],
                               !.spared = x]))

AltProcessDisabled ==
    /\ CanPop(alt)
    /\ IsDisabled(definition, HeadEntry(alt).node_id)
    /\ AltBecomes(process_disabled(definition, alt))

AltProcessPinned ==
    /\ CanPop(alt)
    /\ ~IsDisabled(definition, HeadEntry(alt).node_id)
    /\ IsPinned(definition, HeadEntry(alt).node_id)
    /\ AltBecomes(process_pinned(definition, alt))

AltProcessUnregistered ==
    /\ CanPop(alt)
    /\ ~IsDisabled(definition, HeadEntry(alt).node_id)
    /\ ~IsPinned(definition, HeadEntry(alt).node_id)
    /\ ~HasStep(definition, HeadEntry(alt).node_id)
    /\ AltBecomes(process_unregistered(definition, alt))

AltStartStep ==
    /\ CanPop(alt)
    /\ ~IsDisabled(definition, HeadEntry(alt).node_id)
    /\ ~IsPinned(definition, HeadEntry(alt).node_id)
    /\ HasStep(definition, HeadEntry(alt).node_id)
    /\ AltBecomes(start_step(definition, alt))

AltStepReturn ==
    /\ alt.pc = "await"
    /\ \E r \in AltOutcomes \ {"raise"} : AltBecomes(step_returned(definition, alt, r))

AltStepRaise ==
    /\ alt.pc = "await"
    /\ "raise" \in AltOutcomes
    /\ AltBecomes(step_raised(definition, alt))

AltComplete ==
    /\ alt.pc = "loop"
    /\ alt.exec_ctx.node_execution_stack = <<>>
    /\ AltBecomes(execute_end(alt))

AltSteps ==
    \/ AltExecute
    \/ AltProcessDisabled
    \/ AltProcessPinned
    \/ AltProcessUnregistered
    \/ AltStartStep
    \/ AltStepReturn
    \/ AltStepRaise
    \/ AltComplete

\* the definitions the two runs are compared over
DefinitionsTwice(n) ==
    UNION {DefinitionsWith(m, ForwardPairs(m), MaxConnsTwice, MaxFeatures) : m \in 0..n}

buildTwice == BuildFrom(DefinitionsTwice(NumNodes))

NextTwice == buildTwice \/ Steps \/ AltSteps

SpecTwice == Init /\ [][NextTwice]_vars

\* ───── runs with a callback that throws ─────
\* execute() is handed a callback that throws on the events of some types and
\* returns on the others.
Callbacks == SUBSET EventTypes

\* what execute() may do next in state s of a run: lines 183-333
Successors(def, s) ==
    (IF s.pc = "idle" THEN {execute_begin(def, s)} ELSE {})
    \cup (IF ~CanPop(s) THEN {}
          ELSE IF IsDisabled(def, HeadEntry(s).node_id) THEN {process_disabled(def, s)}
          ELSE IF IsPinned(def, HeadEntry(s).node_id) THEN {process_pinned(def, s)}
          ELSE IF ~HasStep(def, HeadEntry(s).node_id) THEN {process_unregistered(def, s)}
          ELSE {start_step(def, s)})
    \cup (IF s.pc = "await"
          THEN {step_returned(def, s, r) : r \in StepResults} \cup {step_raised(def, s)}
          ELSE {})
    \cup (IF s.pc = "loop" /\ s.exec_ctx.node_execution_stack = <<>>
          THEN {execute_end(s)} ELSE {})

ExecuteWith ==
    /\ pc = "idle"
    /\ \E cb \in Callbacks :
          /\ on_event' = cb
          /\ Becomes(execute_begin(definition, [Run EXCEPT !.on_event = cb]))
    /\ UNCHANGED <<definition, alt, body, time, _runs>>

DefinitionsEvents(n) ==
    UNION {DefinitionsWith(m, ForwardPairs(m), MaxConnsEvents, MaxFeaturesEvents) :
              m \in 0..n}

buildEvents == BuildFrom(DefinitionsEvents(NumNodes))

NextEvents ==
    \/ buildEvents
    \/ ExecuteWith
    \/ ProcessDisabled
    \/ ProcessPinned
    \/ ProcessUnregistered
    \/ StartStep
    \/ StepReturn
    \/ StepRaise
    \/ Complete

SpecEvents == Init /\ [][NextEvents]_vars

\* ───── two runs interleaved at their await points ─────
\* execute() is a coroutine: a second call runs only while the first is
\* suspended in the await of a step (line 273), has not begun or has returned,
\* and the first resumes only while the second is so suspended.  The record
\* alt holds the second run.

\* mutant: the second run is handed the node objects of the first
SecondWorkflow_Same(def, first) == first

\* api_workflow_execute: each request builds a Workflow of its own
SecondWorkflow(def, first) == [n \in def.nodes |-> NewNode]

FirstExecute == alt.pc # "loop" /\ Execute

FirstProcessDisabled == alt.pc # "loop" /\ ProcessDisabled

FirstProcessPinned == alt.pc # "loop" /\ ProcessPinned

FirstProcessUnregistered == alt.pc # "loop" /\ ProcessUnregistered

FirstStartStep == alt.pc # "loop" /\ StartStep

FirstStepReturn == alt.pc # "loop" /\ StepReturn

FirstStepRaise == alt.pc # "loop" /\ StepRaise

FirstComplete == alt.pc # "loop" /\ Complete

FirstSteps ==
    \/ FirstExecute
    \/ FirstProcessDisabled
    \/ FirstProcessPinned
    \/ FirstProcessUnregistered
    \/ FirstStartStep
    \/ FirstStepReturn
    \/ FirstStepRaise
    \/ FirstComplete

PairExecute ==
    /\ pc \notin {"new", "loop"}
    /\ alt.pc = "new"
    /\ AltBecomes(execute_begin(definition,
           [NoRun EXCEPT !.nodes = SecondWorkflow(definition, nodes)]))

PairProcessDisabled == pc # "loop" /\ AltProcessDisabled

PairProcessPinned == pc # "loop" /\ AltProcessPinned

PairProcessUnregistered == pc # "loop" /\ AltProcessUnregistered

PairStartStep == pc # "loop" /\ AltStartStep

PairComplete == pc # "loop" /\ AltComplete

PairStepReturn ==
    /\ pc # "loop"
    /\ alt.pc = "await"
    /\ \E r \in StepResults : AltBecomes(step_returned(definition, alt, r))

PairStepRaise ==
    /\ pc # "loop"
    /\ alt.pc = "await"
    /\ AltBecomes(step_raised(definition, alt))

PairSteps ==
    \/ PairExecute
    \/ PairProcessDisabled
    \/ PairProcessPinned
    \/ PairProcessUnregistered
    \/ PairStartStep
    \/ PairStepReturn
    \/ PairStepRaise
    \/ PairComplete

DefinitionsPair(n) ==
    UNION {DefinitionsWith(m, ForwardPairs(m), MaxConnsPair, MaxFeaturesPair) :
              m \in 0..n}

buildPair == BuildFrom(DefinitionsPair(MaxNodesPair))

NextPair == buildPair \/ FirstSteps \/ PairSteps

SpecPair == Init /\ [][NextPair]_vars

\* ───── two runs over one Workflow object ─────
\* Both execute() calls are handed the same Workflow: the variable nodes holds
\* its node objects, read and written by both runs.

\* mutant: a run writes status and output into a copy of the node
SharedWrite_Copy(workflow_nodes, written) == workflow_nodes

\* lines 215, 249, 286-287, 304-305: node is workflow.nodes[node_id], and the
\* run assigns to its fields
SharedWrite(workflow_nodes, written) == written

\* the second run, looking at the nodes of the Workflow
SharedView == [alt EXCEPT !.nodes = nodes]

SharedBecomes(t) ==
    /\ alt' = t
    /\ nodes' = SharedWrite(nodes, t.nodes)
    /\ UNCHANGED <<definition, exec_ctx, events, pc, execute_data, hist, on_event, body, time, _runs>>

SharedExecute ==
    /\ pc \notin {"new", "loop"}
    /\ alt.pc = "new"
    /\ SharedBecomes(execute_begin(definition, [NoRun EXCEPT !.nodes = nodes]))

SharedProcessDisabled ==
    /\ pc # "loop"
    /\ CanPop(alt)
    /\ IsDisabled(definition, HeadEntry(alt).node_id)
    /\ SharedBecomes(process_disabled(definition, SharedView))

SharedProcessPinned ==
    /\ pc # "loop"
    /\ CanPop(alt)
    /\ ~IsDisabled(definition, HeadEntry(alt).node_id)
    /\ IsPinned(definition, HeadEntry(alt).node_id)
    /\ SharedBecomes(process_pinned(definition, SharedView))

SharedProcessUnregistered ==
    /\ pc # "loop"
    /\ CanPop(alt)
    /\ ~IsDisabled(definition, HeadEntry(alt).node_id)
    /\ ~IsPinned(definition, HeadEntry(alt).node_id)
    /\ ~HasStep(definition, HeadEntry(alt).node_id)
    /\ SharedBecomes(process_unregistered(definition, SharedView))

SharedStartStep ==
    /\ pc # "loop"
    /\ CanPop(alt)
    /\ ~IsDisabled(definition, HeadEntry(alt).node_id)
    /\ ~IsPinned(definition, HeadEntry(alt).node_id)
    /\ HasStep(definition, HeadEntry(alt).node_id)
    /\ SharedBecomes(start_step(definition, SharedView))

SharedStepReturn ==
    /\ pc # "loop"
    /\ alt.pc = "await"
    /\ \E r \in StepResults : SharedBecomes(step_returned(definition, SharedView, r))

SharedStepRaise ==
    /\ pc # "loop"
    /\ alt.pc = "await"
    /\ SharedBecomes(step_raised(definition, SharedView))

SharedComplete ==
    /\ pc # "loop"
    /\ alt.pc = "loop"
    /\ alt.exec_ctx.node_execution_stack = <<>>
    /\ SharedBecomes(execute_end(SharedView))

SharedSteps ==
    \/ SharedExecute
    \/ SharedProcessDisabled
    \/ SharedProcessPinned
    \/ SharedProcessUnregistered
    \/ SharedStartStep
    \/ SharedStepReturn
    \/ SharedStepRaise
    \/ SharedComplete

NextShared == buildPair \/ FirstSteps \/ SharedSteps

SpecShared == Init /\ [][NextShared]_vars

\* ───── runs over definitions with dangling connections ─────
\* the id of a node that the node list of m nodes does not define
Missing(m) == m + 1

\* the endpoints of the connections: between defined nodes, or with the
\* missing node at one end
DanglingPairs(m) ==
    ForwardPairs(m) \cup {<<i, Missing(m)>> : i \in 1..m}
                    \cup {<<Missing(m), i>> : i \in 1..m}

DefinitionsDangling(n) ==
    UNION {DefinitionsWith(m, DanglingPairs(m), MaxConnsDangling, MaxFeaturesDangling) :
              m \in 0..n}

buildDangling == BuildFrom(DefinitionsDangling(NumNodes))

NextDangling == buildDangling \/ Steps

SpecDangling == Init /\ [][NextDangling]_vars

\* ───── runs over definitions parsed from JSON ─────
\* The JSON of a workflow: keys tells which of the keys connections and edges
\* it has, m and S stand for its node list and pinData, connections and edges
\* are the lists under these keys.  A connection or edge is a JSON object, a
\* function from the keys it has to their values.

\* dict.get(key, default)
Get(object, key, default) == IF key \in DOMAIN object THEN object[key] ELSE default

\* mutant: the edges key is not looked at
from_json_NoEdges(json) ==
    [m |-> json.m, S |-> json.S,
     connections |-> IF "connections" \in json.keys THEN json.connections ELSE <<>>]

\* WorkflowDefinition.from_json, workflow_types.py lines 145-161
from_json(json) ==
    LET connections == IF "connections" \in json.keys THEN json.connections ELSE <<>>
    IN  [m |-> json.m, S |-> json.S,
         connections |->
             IF connections = <<>> /\ "edges" \in json.keys
             THEN [i \in 1..Len(json.edges) |->
                      [source |-> json.edges[i].source, target |-> json.edges[i].target]]
             ELSE connections]

\* Workflow.__init__ lines 102-108 over a parsed WorkflowDefinition: the
\* fields a connection lacks take their defaults
Workflow(wd) ==
    [Build(wd.m, <<>>, wd.S) EXCEPT
        !.connections =
            [k \in 1..Len(wd.connections) |->
                Connection(Get(wd.connections[k], "source", 0),
                           Get(wd.connections[k], "target", 0),
                           Get(wd.connections[k], "sourceOutputType", "main"),
                           Get(wd.connections[k], "targetInputType", "main"),
                           Get(wd.connections[k], "targetInputIndex", 0))]]

\* a legacy edge, which may carry keys of its own beside source and target
Edges(p) ==
    {[source |-> p[1], target |-> p[2]],
     [source |-> p[1], target |-> p[2], label |-> "edge"]}

EdgeLists(pairs) ==
    {e \in [1..Len(pairs) -> UNION {Edges(pairs[i]) : i \in 1..Len(pairs)}] :
        \A i \in 1..Len(pairs) : e[i] \in Edges(pairs[i])}

\* the JSON with a legacy edges list and no connections, the connections key
\* absent or holding the empty list
EdgeInputs ==
    UNION {UNION {UNION {{[keys |-> K, m |-> m, S |-> S, connections |-> <<>>, edges |-> e] :
                             K \in {{"edges"}, {"edges", "connections"}},
                             S \in SubsetsUpTo(NodeSettings(m), 1)} :
                         e \in EdgeLists(pairs)} :
                  pairs \in PairLists(ForwardPairs(m), MaxEdges)} :
           m \in 0..NumNodes}

\* the JSON that lists each edge as a connection with channels main and indices 0
Explicit(json) ==
    [keys |-> {"connections"}, m |-> json.m, S |-> json.S, edges |-> <<>>,
     connections |->
         [i \in 1..Len(json.edges) |->
             [source |-> json.edges[i].source, target |-> json.edges[i].target,
              sourceOutputType |-> "main", sourceOutputIndex |-> 0,
              targetInputType |-> "main", targetInputIndex |-> 0]]]

\* api_workflow_execute lines 31-33: from_json, then build
buildEdges ==
    /\ pc = "new"
    /\ body' \in EdgeInputs
    /\ definition' = Workflow(from_json(body'))
    /\ nodes' = [n \in definition'.nodes |-> NewNode]
    /\ pc' = "idle"
    /\ UNCHANGED <<exec_ctx, events, execute_data, hist, alt, on_event, time, _runs>>

NextEdges == buildEdges \/ Steps

SpecEdges == Init /\ [][NextEdges]_vars

\* ───── runs over definitions with any input index ─────
\* targetInputIndex is read from the JSON as it stands (line 108): the
\* definitions in which every connection carries an input index from below 0
\* to beyond the slots of its target, and at most one node is disabled, pinned
\* or of a type without a step.
IndexSettings(pairs) ==
    [f : {"targetInputIndex"}, at : 1..Len(pairs),
     v : ((0 - MaxIdxBelow)..MaxIdxAbove) \ {0}]

DefinitionsIndex(n) ==
    UNION {UNION {{Build(m, pairs, S \cup D) :
                      S \in {T \in SUBSET IndexSettings(pairs) : Consistent(T)},
                      D \in SubsetsUpTo(NodeSettings(m), 1)} :
                  pairs \in PairLists(ForwardPairs(m), MaxConnsIndex)} :
           m \in 0..n}

buildIndex == BuildFrom(DefinitionsIndex(NumNodes))

NextIndex == buildIndex \/ Steps

SpecIndex == Init /\ [][NextIndex]_vars

\* ───── runs over definitions with cycles ─────
\* build() does not look for cycles (lines 102-112): a connection may lead
\* from any node to any node, itself included.
AllPairs(m) == (1..m) \X (1..m)

\* a connection path leads from node n back to n
OnCycle(def, n) ==
    \E k \in ConnIds(def) :
        def.connections[k].source = n /\ n \in Reach(def, def.connections[k].target)

\* the definitions over any connections, every one into the main input, in
\* which no disabled node lies on a cycle
DefinitionsCyclic(n) ==
    UNION {UNION {{Build(m, pairs, S) :
                      S \in {T \in SubsetsUpTo({x \in Settings(m, pairs) :
                                                   x.f # "targetInputType"},
                                               MaxFeaturesCyclic) :
                                /\ Consistent(T)
                                /\ \A x \in T :
                                      x.f = "disabled"
                                          => ~OnCycle(Build(m, pairs, {}), x.at)}} :
                  pairs \in PairLists(AllPairs(m), MaxConnsCyclic)} :
           m \in 0..n}

buildCyclic == BuildFrom(DefinitionsCyclic(NumNodes))

NextCyclic == buildCyclic \/ Steps

SpecCyclic == Init /\ [][NextCyclic]_vars

\* ───── runs over definitions with a disabled node on a cycle ─────
\* the definitions over any main-to-main connections in which at most one
\* node is disabled, pinned or of a type without a step; the loop of
\* execute() is followed for MaxSteps pops
DefinitionsLoop(n) ==
    UNION {UNION {{Build(m, pairs, D) : D \in SubsetsUpTo(NodeSettings(m), 1)} :
                  pairs \in PairLists(AllPairs(m), MaxConnsLoop)} :
           m \in 0..n}

buildLoop == BuildFrom(DefinitionsLoop(NumNodes))

NextLoop == buildLoop \/ Steps

SpecLoop == Init /\ [][NextLoop]_vars

\* ───── the runs of one engine ─────
\* Two execute() calls on one WorkflowEngine, each over a Workflow of its own,
\* interleaved at their await points.  The clock is read in steps of which
\* TicksPerMs make a millisecond; _runs holds references to the contexts, named
\* here by the call that created them.

\* line 183: f"run-{int(time.time() * 1000)}", the id named by its millisecond count
RunIdAt(t) == t \div TicksPerMs

\* line 190: self._runs[run_id] = exec_ctx
Registering(runs, id, call) ==
    [k \in DOMAIN runs \cup {id} |-> IF k = id THEN call ELSE runs[k]]

\* WorkflowEngine.get_run: the call whose context _runs holds under the id
get_run(id) == IF id \in DOMAIN _runs THEN _runs[id] ELSE "None"

\* lines 183-206 with the clock reading t
execute_at(def, s, t) ==
    [execute_begin(def, s) EXCEPT !.exec_ctx.run_id = RunIdAt(t)]

\* the clock advances
Tick ==
    /\ time < MaxTime
    /\ time' = time + 1
    /\ UNCHANGED <<definition, nodes, exec_ctx, events, pc, execute_data, hist, alt,
                   on_event, body, _runs>>

RunsExecute ==
    /\ alt.pc # "loop"
    /\ pc = "idle"
    /\ Becomes(execute_at(definition, Run, time))
    /\ _runs' = Registering(_runs, RunIdAt(time), "first")
    /\ UNCHANGED <<definition, alt, on_event, body, time>>

RunsPairExecute ==
    /\ pc \notin {"new", "loop"}
    /\ alt.pc = "new"
    /\ alt' = execute_at(definition,
                         [NoRun EXCEPT !.nodes = SecondWorkflow(definition, nodes)], time)
    /\ _runs' = Registering(_runs, RunIdAt(time), "second")
    /\ UNCHANGED <<definition, nodes, exec_ctx, events, pc, execute_data, hist,
                   on_event, body, time>>

DefinitionsRuns(n) ==
    UNION {DefinitionsWith(m, ForwardPairs(m), MaxConnsRuns, MaxFeaturesRuns) :
              m \in 0..n}

buildRuns == BuildFrom(DefinitionsRuns(MaxNodesRuns))

NextRuns ==
    \/ buildRuns
    \/ Tick
    \/ RunsExecute
    \/ FirstProcessDisabled
    \/ FirstProcessPinned
    \/ FirstProcessUnregistered
    \/ FirstStartStep
    \/ FirstStepReturn
    \/ FirstStepRaise
    \/ FirstComplete
    \/ RunsPairExecute
    \/ PairProcessDisabled
    \/ PairProcessPinned
    \/ PairProcessUnregistered
    \/ PairStartStep
    \/ PairStepReturn
    \/ PairStepRaise
    \/ PairComplete

SpecRuns == Init /\ [][NextRuns]_vars

\* ───── the claims ─────
MainInputs(def, n) == {k \in ConnIds(def) :
                          /\ def.connections[k].target = n
                          /\ def.connections[k].targetInputType = "main"}

Queue == exec_ctx.node_execution_stack

\* the connections that have delivered an item so far
HaveDelivered ==
    {exec_ctx.log[i].conn : i \in {j \in 1..Len(exec_ctx.log) : exec_ctx.log[j].written}}

\* C1: a node that is not disabled and has two or more incoming main
\* connections is in the queue only when every one of these connections has
\* delivered at least once.
C1_JoinWaitsForEveryConnection ==
    \A i \in 1..Len(Queue) :
        LET n == Queue[i].node_id
        IN  ~definition.disabled[n] /\ Cardinality(MainInputs(definition, n)) >= 2
                => MainInputs(definition, n) \subseteq HaveDelivered

RECURSIVE Weight(_, _), WeightOver(_, _)
\* the number of connection paths that start at node n, the empty one included
Weight(def, n) ==
    1 + WeightOver(def, {k \in ConnIds(def) : def.connections[k].source = n})

WeightOver(def, K) ==
    IF K = {} THEN 0
    ELSE LET k == CHOOSE x \in K : TRUE
         IN  Weight(def, def.connections[k].target) + WeightOver(def, K \ {k})

RECURSIVE QueueWeight(_, _)
QueueWeight(def, stack) ==
    IF stack = <<>> THEN 0
    ELSE Weight(def, Head(stack).node_id) + QueueWeight(def, Tail(stack))

\* the work the loop still has before it: the paths that start at a queued
\* entry, and those of the node whose step is awaited less its pop
Rank ==
    2 * QueueWeight(definition, Queue)
      + (IF pc = "await" THEN 2 * Weight(definition, execute_data.node_id) - 1 ELSE 0)

\* a step of the loop leaves a smaller rank, or it is the return
LoopStep ==
    pc \in {"loop", "await"} => \/ Rank' >= 0 /\ Rank' < Rank
                                \/ pc' = "done" /\ Rank = 0

\* C2: over an acyclic definition execute() terminates: the loop is never
\* stopped with entries left in the queue, and every step of the loop makes the
\* natural number Rank smaller, so the queue is empty after finitely many
\* steps, when the context is returned.
C2_Terminates ==
    /\ [](pc = "loop" /\ Queue # <<>> => hist.steps < MaxSteps)
    /\ [](pc = "done" => Queue = <<>> /\ exec_ctx.status = "success")
    /\ [][LoopStep]_vars

\* C2 witness: a run over a definition with a disabled node that fired more
\* than once and a failed step has returned
C2_Witness ==
    /\ pc = "done"
    /\ \E n \in definition.nodes : definition.disabled[n] /\ hist.dequeued[n] >= 2
    /\ \E n \in definition.nodes : nodes[n].status = "error"

\* ───── the last invocation ─────
Last == hist.last

\* the invocation recorded last has ended and no later one has begun
Ended(kind) == pc \in {"loop", "done"} /\ Last.kind = kind

Outgoing(def, n, type) ==
    {k \in ConnIds(def) : /\ def.connections[k].source = n
                          /\ def.connections[k].sourceOutputType = type}

Incoming(def, n) == {k \in ConnIds(def) : def.connections[k].target = n}

\* the deliveries of the last invocation over connection k
Over(k) == {i \in 1..Len(Last.delivered) : Last.delivered[i].conn = k}

Emitted(event) == {i \in 1..Len(Last.events) : Last.events[i].event = event}

Raised == Ended("error") /\ Last.result = "raise"

\* C3: when the step of a node raises, the node is left with status error and
\* the message, the invocation emits one node:error for the node, hands the one
\* item {error, node} once over every connection of the node's error channel,
\* and the run ends with status success.
C3_RaisingStep ==
    /\ Raised =>
         /\ nodes[Last.node].status = "error"
         /\ nodes[Last.node].error = StepMessage
         /\ Cardinality(Emitted(EVENT_NODE_ERROR)) = 1
         /\ \A i \in Emitted(EVENT_NODE_ERROR) :
               Last.events[i].node_id = Last.node /\ Last.events[i].data = StepMessage
         /\ \A k \in Outgoing(definition, Last.node, "error") :
               /\ Cardinality(Over(k)) = 1
               /\ \A i \in Over(k) :
                     Last.delivered[i].list =
                         <<from_single(Item("error", Last.node, StepMessage))>>
    /\ pc = "done" => exec_ctx.status = "success"

\* C3 witness: a step has raised in a node with a connection on its error
\* channel, and the run has returned
C3_Witness ==
    /\ pc = "done"
    /\ Raised
    /\ Outgoing(definition, Last.node, "error") # {}

\* every call of the step of node b so far has raised
OnlyRaised(b) ==
    /\ ~definition.disabled[b]
    /\ b \notin DOMAIN definition.pin_data
    /\ definition.registered[b]
    /\ \A i \in 1..Len(hist.results[b]) : hist.results[b][i] = "raise"

\* the only connection into c is one from the main channel of b
OnlyFedByMainOf(c, b) ==
    \E k \in Incoming(definition, c) :
        /\ Incoming(definition, c) = {k}
        /\ definition.connections[k].source = b
        /\ definition.connections[k].sourceOutputType = "main"

\* C4: when the step of a node raises nothing is delivered over the node's
\* main connections: a node whose only incoming connection is the main output
\* of a node whose step raises is never enqueued, never executes and stays
\* idle, and the run ends with status success.
C4_NoMainAfterRaise ==
    /\ Raised => \A k \in Outgoing(definition, Last.node, "main") : Over(k) = {}
    /\ \A b, c \in definition.nodes :
          OnlyFedByMainOf(c, b) /\ OnlyRaised(b)
              => /\ hist.enqueued[c] = 0
                 /\ hist.dequeued[c] = 0
                 /\ nodes[c].status = "idle"
    /\ pc = "done" => exec_ctx.status = "success"

\* C4 witness: a -> b -> c where the step of b has raised, after the return
C4_Witness ==
    /\ pc = "done"
    /\ \E a, b, c \in definition.nodes :
          /\ OnlyFedByMainOf(b, a)
          /\ OnlyFedByMainOf(c, b)
          /\ OnlyRaised(b)
          /\ hist.results[b] # <<>>
          /\ nodes[b].status = "error"

\* ───── the status of the run ─────
\* a step changes the status of the run from new to running or from running
\* to success, or leaves it
StatusStep ==
    exec_ctx'.status # exec_ctx.status
        => <<exec_ctx.status, exec_ctx'.status>> \in
               {<<"new", "running">>, <<"running", "success">>}

\* C6: for every definition, the empty graph included, and every outcome of
\* the steps the status of the run only moves new -> running -> success: it is
\* running exactly while execute() is in its loop, success exactly when
\* execute() has returned, however many nodes failed, and never error,
\* cancelled or waiting.
C6_RunStatus ==
    /\ [](exec_ctx.status \in {"new", "running", "success"})
    /\ [](exec_ctx.status = "running" <=> pc \in {"loop", "await"})
    /\ [](exec_ctx.status = "success" <=> pc = "done")
    /\ [][StatusStep]_vars

\* C6 witness: execute() has returned from a run in which two nodes failed
C6_Witness ==
    /\ pc = "done"
    /\ exec_ctx.status = "success"
    /\ \E a, b \in definition.nodes :
          a # b /\ nodes[a].status = "error" /\ nodes[b].status = "error"

\* ───── pinned nodes ─────
PinnedNodes == DOMAIN definition.pin_data

\* the events of the run with this type, node and data
EventsOf(event, n, data) ==
    {i \in 1..Len(events) : events[i] = [event |-> event, node_id |-> n, data |-> data]}

EventsAbout(n) == {i \in 1..Len(events) : events[i].node_id = n}

\* node n has been handled as a pinned node every time it was dequeued
HandledAsPinned(n) ==
    /\ hist.invoked[n] = 0
    /\ nodes[n].status \in {"idle", "success"}
    /\ hist.dequeued[n] > 0 => nodes[n].status = "success"
    /\ Cardinality(EventsOf(EVENT_NODE_FINISHED, n, "pinned")) = hist.dequeued[n]
    /\ EventsAbout(n) = EventsOf(EVENT_NODE_FINISHED, n, "pinned")

\* C7 as claimed: every node of pinData never has its step invoked, has status
\* success once it was dequeued, and each of its invocations emits one
\* node:finished with pinned: true and nothing else.
C7_PinnedAsClaimed ==
    \A n \in PinnedNodes : HandledAsPinned(n)

\* C7: the step of a node of pinData is never invoked; a node of pinData that
\* is not disabled has status success once it was dequeued (never error or
\* skipped, whatever a step would do and also without a registered step), and
\* each of its invocations emits one node:finished with pinned: true, no
\* node:started and no other event.
C7_PinnedNeverInvoked ==
    \A n \in PinnedNodes :
        /\ hist.invoked[n] = 0
        /\ ~definition.disabled[n] => HandledAsPinned(n)

\* C7 witness: a pinned node without a registered step was dequeued, and so
\* was the node it delivers to
C7_Witness ==
    \E n \in PinnedNodes :
        /\ ~definition.registered[n]
        /\ ~definition.disabled[n]
        /\ hist.dequeued[n] > 0
        /\ \E k \in Outgoing(definition, n, "main") :
              hist.dequeued[definition.connections[k].target] > 0

\* the pinned record list of node p as a payload
PinnedRecords(p) ==
    NodeExecutionData([i \in 1..definition.pin_data[p] |-> Item("pin", p, "")])

\* node c is the target of a connection of the main channel of node p
MainDownstream(c, p) ==
    \E k \in Outgoing(definition, p, "main") : definition.connections[k].target = c

\* the last invocation handed list once over every main connection of its node
HandedOnMain(list) ==
    \A k \in Outgoing(definition, Last.node, "main") :
        /\ Cardinality(Over(k)) = 1
        /\ \A i \in Over(k) : Last.delivered[i].list = list /\ Last.delivered[i].written

\* C8 as claimed: what a node of pinData delivers on main is its pinned record
\* list, and every step of a direct main downstream node of a node of pinData
\* is called with the pinned records as its input.
C8_PinnedAsClaimed ==
    /\ pc \in {"loop", "done"} /\ Last.node \in PinnedNodes
          => HandedOnMain(<<PinnedRecords(Last.node)>>)
    /\ pc = "await"
          => \A p \in PinnedNodes :
                MainDownstream(execute_data.node_id, p)
                    => get_main_input(execute_data) = PinnedRecords(p)

\* C8: a node of pinData that is not disabled delivers on each of its main
\* connections exactly its pinned record list, whatever it received as input;
\* a node whose only incoming connection is such a main connection has its step
\* called with the pinned records as input, and with the empty sentinel when
\* the pinned list holds no record.
C8_PinnedPayload ==
    /\ Ended("pinned")
          => /\ Last.output = <<Entry("main", <<PinnedRecords(Last.node)>>)>>
             /\ HandedOnMain(<<PinnedRecords(Last.node)>>)
    /\ pc = "await"
          => \A p \in PinnedNodes :
                ~definition.disabled[p] /\ OnlyFedByMainOf(execute_data.node_id, p)
                    => get_main_input(execute_data) =
                           IF definition.pin_data[p] > 0 THEN PinnedRecords(p) ELSE empty

\* C8 witness: in a -> p -> c with p pinned to one record, p was handed the
\* result of a and the step of c is called
C8_Witness ==
    /\ pc = "await"
    /\ \E a, p \in definition.nodes :
          /\ p \in PinnedNodes
          /\ definition.pin_data[p] > 0
          /\ ~definition.disabled[p]
          /\ OnlyFedByMainOf(p, a)
          /\ hist.results[a] = <<"ned">>
          /\ OnlyFedByMainOf(execute_data.node_id, p)

\* ───── disabled nodes ─────
SkippedDisabled(n) == <<[event |-> EVENT_NODE_SKIPPED, node_id |-> n, data |-> "disabled"]>>

\* C9 as claimed: the step of a disabled node is never invoked, and whenever a
\* disabled node is dequeued it emits node:skipped with reason disabled and
\* hands the main input it was delivered, unchanged, to each of its main targets.
C9_DisabledAsClaimed ==
    /\ \A n \in definition.nodes : definition.disabled[n] => hist.invoked[n] = 0
    /\ Ended("disabled")
          => /\ Last.events = SkippedDisabled(Last.node)
             /\ Last.output = <<Entry("main", Last.input.main)>>
             /\ HandedOnMain(Last.input.main)

\* the main input of the last invocation is one payload with at least one item
InputIsPayload == Len(Last.input.main) = 1 /\ Truthy(Last.input.main[1])

\* C9: the step of a disabled node is never invoked, and whenever a disabled
\* node is dequeued it emits node:skipped with reason disabled and hands one
\* payload to each of its main targets: the main input it was delivered,
\* unchanged, when that is a payload with at least one item, and the empty
\* sentinel when the input is missing, null or without items.
C9_DisabledPassthrough ==
    /\ \A n \in definition.nodes : definition.disabled[n] => hist.invoked[n] = 0
    /\ Ended("disabled")
          => /\ Last.events = SkippedDisabled(Last.node)
             /\ LET list == IF InputIsPayload THEN Last.input.main ELSE <<empty>>
                IN  /\ Last.output = <<Entry("main", list)>>
                    /\ HandedOnMain(list)

\* C9 witness: a disabled node without a registered step was handed the
\* result of a step and has passed it to a main target
C9_Witness ==
    /\ Ended("disabled")
    /\ ~definition.registered[Last.node]
    /\ InputIsPayload
    /\ Last.input.main[1].items[1].tag = "out"
    /\ Outgoing(definition, Last.node, "main") # {}

\* ───── nodes without a registered step ─────
\* a non-disabled node with an incoming main connection from a node without a
\* step has been enqueued once all its incoming main connections have delivered
JoinsFire ==
    \A j \in definition.nodes :
        /\ ~definition.disabled[j]
        /\ \E k \in MainInputs(definition, j) :
              ~definition.registered[definition.connections[k].source]
        /\ MainInputs(definition, j) \subseteq HaveDelivered
        => hist.enqueued[j] >= 1

NoStep(n) ==
    /\ ~definition.registered[n]
    /\ ~definition.disabled[n]
    /\ n \notin PinnedNodes

SameIn(n) ==
    /\ alt.hist.enqueued[n] = hist.enqueued[n]
    /\ alt.hist.dequeued[n] = hist.dequeued[n]
    /\ alt.hist.invoked[n] = hist.invoked[n]
    /\ alt.hist.results[n] = hist.results[n]
    /\ alt.nodes[n].status = nodes[n].status

\* C5: a step failure is local.  A run in which steps raised returns only
\* when every queue entry has been dequeued; and when the step of node
\* x raised in a run, every node that no connection path from x leads to is
\* enqueued, dequeued and invoked as often, and ends with the same status, as
\* in the run over the same definition where the step of x returns normally.
C5_FailureIsLocal ==
    /\ pc = "done" => \A n \in definition.nodes : hist.dequeued[n] = hist.enqueued[n]
    /\ pc = "done" /\ alt.pc = "done"
          => \A n \in definition.nodes \ Reach(definition, alt.spared) : SameIn(n)

\* C5 witness: both runs have returned; the step of x raised in the first,
\* a node that x does not reach was dequeued after the failure, and a node
\* that x reaches ended differently in the two runs
C5_Witness ==
    /\ pc = "done"
    /\ alt.pc = "done"
    /\ nodes[alt.spared].status = "error"
    /\ alt.nodes[alt.spared].status = "success"
    /\ \E n \in definition.nodes \ Reach(definition, alt.spared) :
          /\ hist.invoked[n] > 0
          /\ \E i \in 1..Len(events) :
                /\ events[i].event = EVENT_NODE_ERROR
                /\ events[i].node_id = alt.spared
                /\ \E j \in i + 1..Len(events) :
                      events[j].event = EVENT_NODE_STARTED /\ events[j].node_id = n
    /\ \E m \in Reach(definition, alt.spared) \ {alt.spared} :
          alt.nodes[m].status # nodes[m].status

\* ───── start nodes ─────
StartNodes ==
    {get_start_nodes(definition)[i] : i \in 1..Len(get_start_nodes(definition))}

\* execute() has seeded the queue and popped nothing yet
Seeded == pc = "loop" /\ hist.steps = 0

QueuedNodes == {Queue[i].node_id : i \in 1..Len(Queue)}

\* C11 as claimed: get_start_nodes() returns exactly the nodes without an
\* incoming connection on the main input channel, so a node whose incoming
\* connections all enter on error or ai_tool is a start node, and the initial
\* queue holds start nodes only.
C11_StartNodesAsClaimed ==
    pc # "new"
        => /\ StartNodes = {n \in definition.nodes : MainInputs(definition, n) = {}}
           /\ Seeded => QueuedNodes \subseteq StartNodes

\* C11: get_start_nodes() returns exactly the nodes without an incoming
\* connection on any input channel, in the order of the node list: a node with
\* an incoming connection on main, error or ai_tool is no start node; and the
\* initial queue holds exactly the start nodes that are not disabled, once
\* each, in that order, each with one main slot holding the empty sentinel.
C11_StartNodes ==
    pc # "new"
        => /\ StartNodes = {n \in definition.nodes : Incoming(definition, n) = {}}
           /\ \A i, j \in 1..Len(get_start_nodes(definition)) :
                 i < j => get_start_nodes(definition)[i] < get_start_nodes(definition)[j]
           /\ Seeded =>
                 /\ QueuedNodes = {n \in StartNodes : ~definition.disabled[n]}
                 /\ \A i, j \in 1..Len(Queue) : i < j => Queue[i].node_id < Queue[j].node_id
                 /\ \A i \in 1..Len(Queue) : Queue[i].main = <<empty>>

\* C11 witness: the queue is seeded over a definition with a node entered on
\* ai_tool only, which is not queued, and a disabled start node
C11_Witness ==
    /\ Seeded
    /\ Queue # <<>>
    /\ \E n \in definition.nodes \ QueuedNodes :
          /\ Incoming(definition, n) # {}
          /\ \A k \in Incoming(definition, n) :
                definition.connections[k].targetInputType = "ai_tool"
    /\ \E n \in StartNodes : definition.disabled[n]

\* ───── the slots of a join ─────
\* the length of the main list of the waiting buffer of node n
SlotsOf(n) == Max(get_upstream_count(definition, n, "main"), 1)

\* a delivery of the run so far has written slot (counted from 0) of node n
Filled(n, slot) ==
    \E l \in 1..Len(exec_ctx.log) :
        LET c == definition.connections[exec_ctx.log[l].conn]
        IN  /\ c.target = n
            /\ exec_ctx.log[l].written
            /\ Min(c.targetInputIndex, SlotsOf(n) - 1) = slot

\* C12: every queue entry of a node that is not disabled and has incoming
\* main connections carries one main slot per incoming main connection, and a
\* delivery has written every one of these slots.
C12_SlotsAssembled ==
    \A i \in 1..Len(Queue) :
        LET n == Queue[i].node_id
        IN  ~definition.disabled[n] /\ MainInputs(definition, n) # {}
                => /\ Len(Queue[i].main) = Cardinality(MainInputs(definition, n))
                   /\ \A slot \in 0..Len(Queue[i].main) - 1 : Filled(n, slot)

\* ───── the happy path of a DAG ─────
\* no node is disabled and every connection leads from main to main
PlainDag ==
    /\ pc # "new"
    /\ \A n \in definition.nodes : ~definition.disabled[n]
    /\ \A k \in ConnIds(definition) :
          /\ definition.connections[k].sourceOutputType = "main"
          /\ definition.connections[k].targetInputType = "main"

\* every step call so far has ended with a result among these
AllResultsIn(R) ==
    \A n \in definition.nodes :
        \A i \in 1..Len(hist.results[n]) : hist.results[n][i] \in R

\* the results that put a payload on main
MainResults == {"ned", "null", "emptyerr"}

\* what node n has put on main
MainOutputOf(n) ==
    IF nodes[n].status = "skipped" THEN empty ELSE nodes[n].output_data[1].list[1]

\* the slot (counted from 0) that connection k writes
SlotOfConn(k) ==
    Min(definition.connections[k].targetInputIndex,
        SlotsOf(definition.connections[k].target) - 1)

\* the incoming connections of node d write different slots
DistinctSlots(d) ==
    \A k, l \in Incoming(definition, d) : k # l => SlotOfConn(k) # SlotOfConn(l)

\* no node was dequeued twice, every node was dequeued once when the run has
\* returned, and a node was dequeued only after all its upstream nodes ended;
\* when its connections write different slots every queue entry of the node
\* holds, in the slot of each connection, what the source has put on main
OnceEachAfterUpstreams ==
    /\ \A n \in definition.nodes :
          /\ hist.dequeued[n] <= 1 /\ hist.enqueued[n] <= 1
          /\ pc = "done" => hist.dequeued[n] = 1
    /\ \A d \in definition.nodes :
          hist.enqueued[d] >= 1
              => \A k \in Incoming(definition, d) :
                    /\ hist.dequeued[definition.connections[k].source] = 1
                    /\ nodes[definition.connections[k].source].status
                           \in {"success", "skipped"}
    /\ \A i \in 1..Len(Queue) :
          DistinctSlots(Queue[i].node_id)
              => \A k \in Incoming(definition, Queue[i].node_id) :
                    Queue[i].main[SlotOfConn(k) + 1] =
                        MainOutputOf(definition.connections[k].source)

\* C13 as claimed: in a DAG without disabled nodes whose connections all lead
\* from main to main, when no step raises, every node executes exactly once
\* and a fan-in node executes after all its upstream nodes, its slots holding
\* their outputs.
C13_OnceEachAsClaimed ==
    PlainDag /\ AllResultsIn(StepResults) => OnceEachAfterUpstreams

\* C13: in a DAG without disabled nodes whose connections all lead from main
\* to main, when every step returns a NodeExecutionData or a map with a
\* non-empty main list, every node is dequeued exactly once, and a fan-in node
\* (d in a -> [b, c] -> d with input indices 0 and 1) is enqueued only after
\* all its upstream nodes have ended, the slot of each upstream holding what
\* that upstream has put on main.
C13_OnceEach ==
    PlainDag /\ AllResultsIn(MainResults) => OnceEachAfterUpstreams

\* C13 witness: a -> [b, c] -> d with b on input index 0 and c on input index
\* 1 of d, every step has returned and the run is over
C13_Witness ==
    /\ pc = "done"
    /\ PlainDag
    /\ AllResultsIn(MainResults)
    /\ definition.nodes = 1..DiamondNodes
    /\ \A n \in definition.nodes : hist.invoked[n] = 1 /\ nodes[n].status = "success"
    /\ DistinctSlots(DiamondNodes)
    /\ Cardinality(Incoming(definition, DiamondNodes)) = 2

\* ───── enqueued once ─────
\* C14: over an acyclic definition a node that is not disabled is pushed onto
\* the execution queue at most once in a run.
C14_EnqueuedOnce ==
    \A n \in definition.nodes :
        ~definition.disabled[n] => hist.enqueued[n] <= 1

\* ───── the status of a node ─────
\* node n is not in the middle of an invocation
AtRest(n) == ~(pc = "await" /\ execute_data.node_id = n)

\* C15: an invocation moves the status of its node along idle -> running ->
\* {success, error, skipped} only: once dequeued, a disabled node and a node
\* of a type without a step have status skipped, a pinned node has status
\* success and never skipped; no invocation leaves its node running, and none
\* begins on a node that an earlier invocation left in success, error or
\* skipped.
C15_StatusPath ==
    \A n \in definition.nodes :
        /\ pc = "await" /\ execute_data.node_id = n => nodes[n].status = "running"
        /\ AtRest(n) => nodes[n].status # "running"
        /\ AtRest(n) /\ hist.dequeued[n] > 0
              => /\ nodes[n].status \in {"success", "error", "skipped"}
                 /\ definition.disabled[n] \/ ~definition.registered[n]
                       => nodes[n].status = (IF n \in PinnedNodes /\ ~definition.disabled[n]
                                             THEN "success" ELSE "skipped")
                 /\ n \in PinnedNodes /\ ~definition.disabled[n]
                       => nodes[n].status = "success"
        /\ n \in PinnedNodes => nodes[n].status # "skipped"
        /\ nodes[n].status \in {"success", "error", "skipped"}
              => hist.dequeued[n] - (IF AtRest(n) THEN 0 ELSE 1) <= 1


\* a step of the run is a step execute() takes from the same state when its
\* callback never throws
QuietStep ==
    pc # "new" =>
        \E t \in Successors(definition, [Run EXCEPT !.on_event = {}]) :
            [Run EXCEPT !.on_event = {}]' = t

\* C16: whatever events the callback throws on, no exception of it leaves
\* _emit: execute() is never left by an exception, every step of the run
\* (dequeue, status change, deliveries, context) is the step taken when the
\* callback never throws, and a node has status error only by the failure of
\* its step.
C16_CallbackIsolated ==
    /\ [](/\ pc # "raised"
          /\ \A n \in DOMAIN nodes :
                nodes[n].status = "error" => nodes[n].error \in {StepMessage, IndexMessage})
    /\ [][QuietStep]_vars

\* a run that has returned under a callback that throws on every event, with
\* a node that succeeded and a node whose step failed
C16_Witness ==
    /\ pc = "done"
    /\ on_event = EventTypes
    /\ \E n \in DOMAIN nodes : nodes[n].status = "success"
    /\ \E n \in DOMAIN nodes : nodes[n].status = "error"


\* the positions of the events of this type
EventsNamed(event) == {i \in 1..Len(events) : events[i].event = event}

\* the step of the awaited node fails in this step
StepFails == pc = "await" /\ nodes'[execute_data.node_id].status = "error"

\* node:error is emitted in the step in which the step of a node fails, for
\* that node and with its message, in the step that takes no entry off the
\* queue; no other step emits it
ErrorAtFailure ==
    LET n == execute_data.node_id
    IN  /\ StepFails =>
              /\ events' = Append(events, [event |-> EVENT_NODE_ERROR, node_id |-> n,
                                           data |-> nodes'[n].error])
              /\ hist'.dequeued = hist.dequeued
        /\ ~StepFails /\ pc # "new" =>
              \A i \in 1..Len(events') : i > Len(events) => events'[i].event # EVENT_NODE_ERROR

\* C17: the events of a run start with the one workflow:started and, once
\* execute() has returned, end with the one workflow:finished, whatever the
\* nodes did; the node events lie between them; node:error is emitted in the
\* step in which the step fails, before the next entry is popped.
C17_EventFrame ==
    /\ [](/\ pc \in {"new", "idle"} => events = <<>>
          /\ pc \in {"loop", "await", "done"} => EventsNamed(EVENT_WORKFLOW_STARTED) = {1}
          /\ pc \in {"loop", "await"} => EventsNamed(EVENT_WORKFLOW_FINISHED) = {}
          /\ pc = "done" => EventsNamed(EVENT_WORKFLOW_FINISHED) = {Len(events)}
          /\ pc \in {"new", "idle", "loop", "await", "done"})
    /\ [][ErrorAtFailure]_vars

\* a returned run in which one step failed and a later node succeeded
C17_Witness ==
    /\ pc = "done"
    /\ \E i \in EventsNamed(EVENT_NODE_ERROR) :
          \E j \in EventsNamed(EVENT_NODE_FINISHED) : i < j
    /\ Len(events) >= 6


RECURSIVE IsSubseq(_, _)
\* a is b with some elements left out
IsSubseq(a, b) ==
    IF a = <<>> THEN TRUE
    ELSE IF b = <<>> THEN FALSE
    ELSE IF Head(a) = Head(b) THEN IsSubseq(Tail(a), Tail(b))
    ELSE IsSubseq(a, Tail(b))

\* In a step of the run, the entry taken off the queue is its head, what was
\* behind it stays in place and entries are added at the tail only; the
\* entries added are the targets of the deliveries of this step in the order
\* of the deliveries, and the deliveries out of one channel are in the
\* registration order of its connections.  The start nodes are queued in the
\* order of the node list.
FifoStep ==
    LET popped == hist'.dequeued # hist.dequeued
        rest   == IF popped /\ Queue # <<>> THEN Tail(Queue) ELSE Queue
        added  == SubSeq(Queue', Len(rest) + 1, Len(Queue'))
        made   == SubSeq(exec_ctx'.log, Len(exec_ctx.log) + 1, Len(exec_ctx'.log))
        conn(i) == definition.connections[made[i].conn]
    IN  pc # "new" =>
          /\ popped =>
                /\ Queue # <<>>
                /\ hist'.dequeued = [hist.dequeued EXCEPT ![Head(Queue).node_id] = @ + 1]
                /\ pc' = "await" => execute_data' = Head(Queue)
          /\ Len(Queue') >= Len(rest)
          /\ SubSeq(Queue', 1, Len(rest)) = rest
          /\ \A i, j \in 1..Len(made) :
                /\ conn(i).source = conn(j).source
                /\ i < j /\ conn(i).sourceOutputType = conn(j).sourceOutputType
                      => made[i].conn < made[j].conn
          /\ IF pc = "idle"
             THEN \A i, j \in 1..Len(added) : i < j => added[i].node_id < added[j].node_id
             ELSE IsSubseq([i \in 1..Len(added) |-> added[i].node_id],
                           [i \in 1..Len(made) |-> conn(i).target])
          /\ Run' \in Successors(definition, Run)

\* the fan-outs a -> [b, c]: two main connections of one source, registered
\* b then c, each the one connection into its target
FanOuts ==
    {p \in ConnIds(definition) \X ConnIds(definition) :
        LET k == definition.connections[p[1]]
            l == definition.connections[p[2]]
        IN  /\ p[1] < p[2]
            /\ k.source = l.source
            /\ k.target # l.target
            /\ \A c \in {k, l} : c.sourceOutputType = "main" /\ c.targetInputType = "main"
            /\ \A q \in ConnIds(definition) \ {p[1], p[2]} :
                  definition.connections[q].target \notin {k.target, l.target}}

\* C18: the queue is first in, first out; the targets of a node are queued in
\* the order of its output channels and, within a channel, of the
\* registration of the connections, so in a fan-out a -> [b, c] registered b
\* then c, b is processed before c each time; and the run has one next step
\* in every state but that of an awaited step, where the outcome of the step
\* fixes it: the events are a function of the definition and the outcomes.
C18_FifoOrder ==
    /\ [](/\ \A p \in FanOuts :
                hist.dequeued[definition.connections[p[2]].target]
                    <= hist.dequeued[definition.connections[p[1]].target]
          /\ pc \in {"idle", "loop", "done"}
                => Cardinality(Successors(definition, Run)) <= 1)
    /\ [][FifoStep]_vars

\* a returned run over a fan-out in which both targets were processed
C18_Witness ==
    /\ pc = "done"
    /\ \E p \in FanOuts :
          /\ hist.dequeued[definition.connections[p[1]].target] = 1
          /\ hist.dequeued[definition.connections[p[2]].target] = 1


TerminalEvents == {EVENT_NODE_FINISHED, EVENT_NODE_ERROR, EVENT_NODE_SKIPPED}

\* event j is a terminal event of node n
TerminalOf(j, n) == events[j].event \in TerminalEvents /\ events[j].node_id = n

\* the position of the first node:started after position i, or past the end
NextStarted(i) ==
    LET later == {j \in EventsNamed(EVENT_NODE_STARTED) : j > i}
    IN  IF later = {} THEN Len(events) + 1
        ELSE CHOOSE j \in later : \A l \in later : j <= l

\* the definition is the chain 1 -> 2 -> ... -> k of k nodes with steps, none
\* disabled or pinned, over main connections
LinearChain ==
    /\ pc # "new"
    /\ definition.nodes # {}
    /\ \A n \in definition.nodes :
          /\ ~IsDisabled(definition, n)
          /\ ~IsPinned(definition, n)
          /\ HasStep(definition, n)
    /\ Len(definition.connections) = Cardinality(definition.nodes) - 1
    /\ \A n \in definition.nodes \ {1} :
          \E c \in ConnIds(definition) :
              /\ definition.connections[c].source = n - 1
              /\ definition.connections[c].target = n
              /\ definition.connections[c].sourceOutputType = "main"
              /\ definition.connections[c].targetInputType = "main"

\* C19: a node:started is followed at once by the terminal event of its node
\* (until then the step of that node is the one awaited), and no further
\* terminal event of the node comes before the next node:started; a
\* node:finished of a node that is not pinned, and a node:error, directly
\* follow the node:started of their node; a returned run over a linear chain
\* of k nodes that all succeeded has emitted k node:started and k
\* node:finished.
C19_StartedThenTerminal ==
    /\ \A i \in EventsNamed(EVENT_NODE_STARTED) :
          LET n == events[i].node_id
          IN  /\ i = Len(events) => pc = "await" /\ execute_data.node_id = n
              /\ i < Len(events) => TerminalOf(i + 1, n)
              /\ \A j \in (i + 2)..(NextStarted(i) - 1) : ~TerminalOf(j, n)
    /\ \A j \in EventsNamed(EVENT_NODE_FINISHED) \cup EventsNamed(EVENT_NODE_ERROR) :
          events[j].data # "pinned" =>
              /\ j > 1
              /\ events[j - 1].event = EVENT_NODE_STARTED
              /\ events[j - 1].node_id = events[j].node_id
    /\ \A j \in EventsNamed(EVENT_NODE_FINISHED) :
          events[j].data = "pinned" <=> IsPinned(definition, events[j].node_id)
    /\ LinearChain /\ pc = "done"
          /\ (\A n \in definition.nodes : nodes[n].status = "success")
          => /\ Cardinality(EventsNamed(EVENT_NODE_STARTED)) = Cardinality(definition.nodes)
             /\ Cardinality(EventsNamed(EVENT_NODE_FINISHED)) = Cardinality(definition.nodes)

\* the chain a -> b -> c has run and its three nodes succeeded
C19_Witness ==
    /\ LinearChain
    /\ Cardinality(definition.nodes) = NumNodes
    /\ pc = "done"
    /\ \A n \in definition.nodes : nodes[n].status = "success"


RunningNodes == {n \in DOMAIN nodes : nodes[n].status = "running"}

\* an entry is taken off the queue only when no step is awaited and no node
\* is running
PopsAtRest ==
    hist'.dequeued # hist.dequeued => pc = "loop" /\ RunningNodes = {}

\* C20: at most one node has status running, and it is the node whose step
\* execute() awaits; the loop takes the next entry off the queue only after
\* that step has completed.
C20_OneStepInFlight ==
    /\ [](/\ Cardinality(RunningNodes) <= 1
          /\ \A n \in RunningNodes : pc = "await" /\ execute_data.node_id = n
          /\ pc = "await" => RunningNodes = {execute_data.node_id})
    /\ [][PopsAtRest]_vars

\* a step is awaited while another entry waits in the queue and a node has
\* already finished
C20_Witness ==
    /\ pc = "await"
    /\ RunningNodes # {}
    /\ Queue # <<>>
    /\ \E n \in DOMAIN nodes : nodes[n].status \in {"success", "error"}


\* the second run as execute() begins it over a Workflow just built
FreshRun ==
    execute_begin(definition, [NoRun EXCEPT !.nodes = [n \in definition.nodes |-> NewNode]])

\* a step of the two runs is a step of one of them, taken as that run takes it
\* alone, and leaves the other run as it was
AloneStep ==
    pc # "new" =>
        /\ Run' # Run => alt' = alt /\ Run' \in Successors(definition, Run)
        /\ alt' # alt =>
              /\ Run' = Run
              /\ IF alt.pc = "new" THEN alt' = FreshRun
                 ELSE alt' \in Successors(definition, alt)

\* C21: two execute() calls over Workflows of their own, built from one
\* definition and interleaved at the awaits of their steps, do not interfere:
\* every step changes the nodes, queue, waiting table, context and events of
\* one run only, and is the step that run takes when it executes alone from a
\* freshly built Workflow.
C21_RunsDoNotInterfere == [][AloneStep]_vars

\* both runs are suspended in the step of the same node of their Workflows,
\* after an earlier node succeeded in one run and failed in the other
C21_Witness ==
    /\ pc = "await"
    /\ alt.pc = "await"
    /\ execute_data.node_id = alt.execute_data.node_id
    /\ \E n \in definition.nodes :
          nodes[n].status = "success" /\ alt.nodes[n].status = "error"


\* a step of the two runs over one Workflow: a run reads the nodes as the
\* other run left them, and what it writes replaces what the other run wrote
SharedStep ==
    pc # "new" =>
        /\ Run' # Run /\ alt' = alt => Run' \in Successors(definition, Run)
        /\ alt' # alt =>
              /\ IF alt.pc = "new"
                 THEN alt' = execute_begin(definition, [NoRun EXCEPT !.nodes = nodes])
                 ELSE alt' \in Successors(definition, SharedView)
              /\ nodes' = alt'.nodes
              /\ UNCHANGED <<exec_ctx, events, pc, execute_data, hist>>

\* the last entry of the run data the first run saved for node n
LastSaved(n) == exec_ctx.run_data[n][Len(exec_ctx.run_data[n])]

Listed == 1..Len(definition.connections)

Dangling(k) ==
    \/ definition.connections[k].source \notin definition.nodes
    \/ definition.connections[k].target \notin definition.nodes

\* the connections held under some key of an index
Indexed(index(_, _, _)) ==
    UNION {{index(definition, n, t)[i] : i \in 1..Len(index(definition, n, t))} :
              <<n, t>> \in Nodes \X ConnectionType}

\* C23: build() accepts a definition with connections from or to an undefined
\* node: both indices hold exactly the connections between defined nodes, a
\* node whose incoming connections all dangle is a start node, dangling
\* connections do not count in get_upstream_count, and no entry for an
\* undefined node is ever queued.
C23_DanglingDropped ==
    pc # "new" =>
        /\ Indexed(connections_by_source) = {k \in Listed : ~Dangling(k)}
        /\ Indexed(connections_by_dest) = {k \in Listed : ~Dangling(k)}
        /\ \A n \in definition.nodes :
              /\ (\A k \in Listed : definition.connections[k].target = n => Dangling(k))
                    => \E i \in 1..Len(get_start_nodes(definition)) :
                           get_start_nodes(definition)[i] = n
              /\ get_upstream_count(definition, n, "main") =
                    Cardinality({k \in Listed :
                                    /\ ~Dangling(k)
                                    /\ definition.connections[k].target = n
                                    /\ definition.connections[k].targetInputType = "main"})
        /\ \A i \in 1..Len(Queue) : Queue[i].node_id \in definition.nodes
        /\ DOMAIN exec_ctx.waiting_execution \subseteq definition.nodes

\* a returned run over a definition with a connection from the missing node
\* into node n and one from n to the missing node, in which n ran as a start
\* node and succeeded
C23_Witness ==
    /\ pc = "done"
    /\ \E n \in definition.nodes :
          /\ \E k \in Listed : definition.connections[k].target = n /\ Dangling(k)
          /\ \E k \in Listed : definition.connections[k].source = n /\ Dangling(k)
          /\ hist.dequeued[n] = 1
          /\ nodes[n].status = "success"


\* the queue entries that a join put there: pushed by a delivery to a node
\* that is not disabled
JoinEntries ==
    {i \in 1..Len(Queue) :
        Queue[i].source # 0 /\ ~IsDisabled(definition, Queue[i].node_id)}

\* C24: whenever the loop is about to pop, every buffer in waiting_execution
\* has received fewer deliveries than it needs, and no node has a buffer
\* while the entry its satisfied join queued is pending.
C24_BufferGoneWhileQueued ==
    pc = "loop" =>
        /\ \A n \in DOMAIN exec_ctx.waiting_execution :
              exec_ctx.waiting_execution[n].received < exec_ctx.waiting_execution[n].needed
        /\ \A i \in JoinEntries :
              Queue[i].node_id \notin DOMAIN exec_ctx.waiting_execution


\* every NodeExecutionData in the list has an item (None is no NodeExecutionData)
HaveItems(list) == \A i \in 1..Len(list) : ~list[i].isNone => Len(list[i].items) >= 1

\* C25: every NodeExecutionData stored as the output of a node, held in a
\* join slot or in a queue entry, or handed to a step, has at least one item.
C25_AtLeastOneItem ==
    /\ \A n \in DOMAIN nodes :
          \A i \in 1..Len(nodes[n].output_data) : HaveItems(nodes[n].output_data[i].list)
    /\ \A i \in 1..Len(Queue) : HaveItems(Queue[i].main)
    /\ \A n \in DOMAIN exec_ctx.waiting_execution :
          HaveItems(exec_ctx.waiting_execution[n].main)
    /\ pc = "await" => HaveItems(<<get_main_input(execute_data)>>)


\* the positions of node id n among the keys of the serialized nodes map
KeysOf(n) ==
    {i \in 1..Len(to_json(exec_ctx, nodes).nodes) :
        to_json(exec_ctx, nodes).nodes[i].key = n}

\* C26: once a Workflow is built, and after any run over it, the nodes map
\* of to_json holds every node id of the graph exactly once and no other id,
\* each with the id and the status of that node; a node that never executed
\* is there with status idle.
C26_EveryNodeSerialized ==
    pc # "new" =>
        LET out == to_json(exec_ctx, nodes).nodes
        IN  /\ \A n \in definition.nodes : Cardinality(KeysOf(n)) = 1
            /\ \A i \in 1..Len(out) :
                  /\ out[i].key \in definition.nodes
                  /\ out[i].value.id = out[i].key
                  /\ out[i].value.status = nodes[out[i].key].status
                  /\ hist.dequeued[out[i].key] = 0 => out[i].value.status = "idle"

\* a returned run in which one node ran and another never did
C26_Witness ==
    /\ pc = "done"
    /\ \E n \in definition.nodes : hist.dequeued[n] = 0 /\ KeysOf(n) # {}
    /\ \E n \in definition.nodes : nodes[n].status = "success"


\* the Workflow built from the JSON that lists the edges as connections
ExplicitWorkflow == Workflow(from_json(Explicit(body)))

\* a step of the run is a step of the run over the explicit definition
ExplicitStep == pc # "new" => Run' \in Successors(ExplicitWorkflow, Run)

\* C27: the Workflow built from a JSON with a legacy edges list is the
\* Workflow built from the JSON listing each edge as a main-to-main connection
\* at indices 0: same connections under every key of both indices, same start
\* nodes, same upstream counts; and every step of its run is the step of the
\* run over that Workflow.
C27_EdgesAsConnections ==
    /\ [](pc # "new" =>
            /\ definition = ExplicitWorkflow
            /\ \A n \in Nodes : \A t \in ConnectionType :
                  /\ connections_by_source(definition, n, t)
                        = connections_by_source(ExplicitWorkflow, n, t)
                  /\ connections_by_dest(definition, n, t)
                        = connections_by_dest(ExplicitWorkflow, n, t)
                  /\ get_upstream_count(definition, n, t)
                        = get_upstream_count(ExplicitWorkflow, n, t)
            /\ get_start_nodes(definition) = get_start_nodes(ExplicitWorkflow))
    /\ [][ExplicitStep]_vars

\* a returned run over a Workflow built from two edges, in which the target
\* of an edge ran
C27_Witness ==
    /\ pc = "done"
    /\ Len(body.edges) = MaxEdges
    /\ Len(definition.connections) = MaxEdges
    /\ \E k \in ConnIds(definition) : nodes[definition.connections[k].target].status = "success"


\* the deliveries made so far over connections into node n
DeliveriesTo(n) ==
    {i \in 1..Len(exec_ctx.log) : definition.connections[exec_ctx.log[i].conn].target = n}

\* the deliveries made so far over connections out of node n
DeliveriesFrom(n) ==
    {i \in 1..Len(exec_ctx.log) : definition.connections[exec_ctx.log[i].conn].source = n}

\* C28: a disabled node is never joined: it has no waiting buffer, every
\* delivery to it has queued one entry for it, and each time it is dequeued it
\* emits node:skipped once and delivers once over each of its main
\* connections; so a disabled node that k deliveries reached is, when the
\* run returns, dequeued k times, skipped k times and has propagated k times.
C28_DisabledBypassesJoin ==
    \A d \in definition.nodes :
        IsDisabled(definition, d) =>
            /\ d \notin DOMAIN exec_ctx.waiting_execution
            /\ Cardinality(DeliveriesTo(d)) = hist.dequeued[d] + Count(Queue, d)
            /\ Cardinality(EventsOf(EVENT_NODE_SKIPPED, d, "disabled")) = hist.dequeued[d]
            /\ Cardinality(EventsAbout(d)) = hist.dequeued[d]
            /\ Cardinality(DeliveriesFrom(d))
                  = hist.dequeued[d] * Len(get_downstream(definition, d, "main"))
            /\ pc = "done" => hist.dequeued[d] = Cardinality(DeliveriesTo(d))

\* a returned run in which a disabled node with two incoming main
\* connections and a target of its own was reached by both and dequeued twice
C28_Witness ==
    /\ pc = "done"
    /\ \E d \in definition.nodes :
          /\ IsDisabled(definition, d)
          /\ Cardinality(MainInputs(definition, d)) = 2
          /\ hist.dequeued[d] = 2
          /\ Cardinality(DeliveriesFrom(d)) = 2


\* the deliveries to node n that put an item into its buffer
WrittenTo(n) == {i \in DeliveriesTo(n) : exec_ctx.log[i].written}

\* node j is not disabled and fewer deliveries have been written for it than
\* it has incoming main connections
Starved(j) ==
    /\ ~IsDisabled(definition, j)
    /\ Cardinality(WrittenTo(j)) < Cardinality(MainInputs(definition, j))

\* C29: a join that has not received as many deliveries as it has main
\* connections is never queued: the node stays idle, no event names it, what
\* it has received sits in its buffer in waiting_execution, also when the
\* queue has drained, and the run then ends SUCCESS all the same.
C29_StarvedJoin ==
    \A j \in definition.nodes :
        Starved(j) =>
            /\ hist.enqueued[j] = 0
            /\ nodes[j].status = "idle"
            /\ EventsAbout(j) = {}
            /\ DeliveriesTo(j) # {} =>
                  /\ j \in DOMAIN exec_ctx.waiting_execution
                  /\ exec_ctx.waiting_execution[j].received = Cardinality(WrittenTo(j))
            /\ pc = "done" =>
                  /\ exec_ctx.status = "success"
                  /\ events[Len(events)] = [event |-> EVENT_WORKFLOW_FINISHED,
                                            node_id |-> 0, data |-> "success"]

\* the run has returned: node j has two main upstreams, the step of one
\* raised, the other delivered, and j is idle with one delivery in its buffer
C29_Witness ==
    /\ pc = "done"
    /\ \E j \in definition.nodes :
          /\ Starved(j)
          /\ Cardinality(MainInputs(definition, j)) = 2
          /\ Cardinality(WrittenTo(j)) = 1
          /\ \E k \in MainInputs(definition, j) :
                nodes[definition.connections[k].source].status = "error"
          /\ \E k \in MainInputs(definition, j) :
                nodes[definition.connections[k].source].status = "success"


\* the connections the last invocation delivered over, in order
LastDelivered == [i \in 1..Len(hist.last.delivered) |-> hist.last.delivered[i].conn]

RECURSIVE ChannelTargets(_, _, _)
\* the connections registered for the channels of an output, channel by channel
ChannelTargets(def, node_id, output) ==
    IF output = <<>> THEN <<>>
    ELSE get_downstream(def, node_id, Head(output).type)
             \o ChannelTargets(def, node_id, Tail(output))

\* C30: when the step of a node has returned, in whatever shape, the node has
\* status success (until its step is called again), the invocation has emitted node:started and one
\* node:finished and no node:error, and it has delivered over the connections
\* registered for the channels of the returned output and over no other.
C30_ReturnIsSuccess ==
    hist.last.result \in StepResults =>
        LET n == hist.last.node
        IN  /\ (pc = "await" /\ execute_data.node_id = n) \/ nodes[n].status = "success"
            /\ hist.last.events = <<[event |-> EVENT_NODE_STARTED, node_id |-> n, data |-> ""],
                                    [event |-> EVENT_NODE_FINISHED, node_id |-> n, data |-> ""]>>
            /\ LastDelivered = ChannelTargets(definition, n, Normalize(n, hist.last.result))


\* ───── disabled start nodes ─────
\* the start nodes that line 198 leaves out of the queue
DisabledStarts == {n \in StartNodes : IsDisabled(definition, n)}

RECURSIVE FedOnlyBy(_)
\* D and the nodes with incoming main connections that all come from D or
\* from such nodes
FedOnlyBy(D) ==
    LET E == D \cup {n \in definition.nodes :
                        /\ MainInputs(definition, n) # {}
                        /\ \A k \in MainInputs(definition, n) :
                              definition.connections[k].source \in D}
    IN  IF E = D THEN D ELSE FedOnlyBy(E)

\* C31: a disabled start node is not seeded: it is never queued or dequeued,
\* no event names it and it delivers nothing; every node whose incoming main
\* connections all come, directly or through such nodes, from disabled start
\* nodes is never dequeued and stays idle; and the run ends SUCCESS.
C31_DisabledStartNotSeeded ==
    pc # "new" =>
        /\ \A d \in DisabledStarts :
              /\ hist.enqueued[d] = 0
              /\ hist.dequeued[d] = 0
              /\ EventsAbout(d) = {}
              /\ DeliveriesFrom(d) = {}
        /\ \A n \in FedOnlyBy(DisabledStarts) :
              /\ hist.dequeued[n] = 0
              /\ nodes[n].status = "idle"
        /\ pc = "done" => exec_ctx.status = "success"


\* ───── two connections from one source ─────
\* node j is not disabled and its incoming connections are two main-to-main
\* connections from node a, one into input index 0 and one into input index 1
TwiceFrom(j, a) ==
    /\ ~IsDisabled(definition, j)
    /\ \E k, l \in Incoming(definition, j) :
          /\ Incoming(definition, j) = {k, l}
          /\ k # l
          /\ \A c \in {k, l} :
                /\ definition.connections[c].source = a
                /\ definition.connections[c].sourceOutputType = "main"
                /\ definition.connections[c].targetInputType = "main"
          /\ definition.connections[k].targetInputIndex = 0
          /\ definition.connections[l].targetInputIndex = 1

\* the payload an output holds first on main: a list with that payload, or
\* the empty list when the output has nothing on main
FirstOnMain(output) ==
    IF \E i \in 1..Len(output) : output[i].type = "main" /\ output[i].list # <<>>
    THEN <<(output[CHOOSE i \in 1..Len(output) : output[i].type = "main"]).list[1]>>
    ELSE <<>>

\* C32: the join buffer is sized by the incoming main connections, not by the
\* distinct upstream nodes: for a node j with two connections from one source
\* a into input indices 0 and 1 the buffer has two slots and needs two
\* deliveries; each invocation of a that puts a payload on main queues j
\* exactly once, with that payload in both slots, and leaves no buffer; so j
\* is queued once after a single execution of a.
C32_SizedByConnections ==
    \A j, a \in definition.nodes :
        TwiceFrom(j, a) =>
            /\ get_upstream_count(definition, j, "main") = 2
            /\ NewWaiting(definition, j).needed = 2
            /\ Len(NewWaiting(definition, j).main) = 2
            /\ pc \in {"loop", "done"} /\ Last.node = a =>
                  /\ Count(Last.pushed, j) = Len(FirstOnMain(Last.output))
                  /\ \A i \in 1..Len(Last.pushed) :
                        Last.pushed[i].node_id = j
                            => Last.pushed[i].main = FirstOnMain(Last.output)
                                                         \o FirstOnMain(Last.output)
            /\ j \notin DOMAIN exec_ctx.waiting_execution
            /\ hist.enqueued[j] <= hist.dequeued[a]
            /\ hist.dequeued[a] = 1 /\ AtRest(a) /\ nodes[a].status = "success"
                  /\ FirstOnMain(nodes[a].output_data) # <<>>
                  => hist.enqueued[j] = 1

\* the run has returned: a ran once and succeeded, j was queued once and ran
\* with the output of a in both slots
C32_Witness ==
    /\ pc = "done"
    /\ \E j, a \in definition.nodes :
          /\ TwiceFrom(j, a)
          /\ hist.invoked[a] = 1
          /\ nodes[a].status = "success"
          /\ hist.enqueued[j] = 1
          /\ hist.invoked[j] = 1
          /\ Last.node = j
          /\ Last.input.main = <<result_of(a), result_of(a)>>


\* ───── the write of a delivery ─────
\* index i clamped into the bounds of a buffer of len slots
Clamp(i, len) == Max(0, Min(i, len - 1))

\* the buffer of target_id as a delivery finds it: the one in
\* waiting_execution, or the one allocated for this delivery
FoundBuffer(ctx, target_id) ==
    IF target_id \in DOMAIN ctx.waiting_execution
    THEN ctx.waiting_execution[target_id]
    ELSE NewWaiting(definition, target_id)

\* the delivery of list over connection k, made in context ctx, has written
\* list[1] into the slot of the clamped input index of the buffer it found,
\* left the other slots alone and counted one more delivery received: the
\* buffer is in waiting_execution so, or it has fired and its slots were queued
WritesClamped(ctx, k, list) ==
    LET c        == definition.connections[k]
        found    == FoundBuffer(ctx, c.target)
        after    == PropagateTo(definition, ctx, c.source, list, k)
        expected == [found.main EXCEPT
                        ![Clamp(c.targetInputIndex, Len(found.main)) + 1] = list[1]]
    IN  /\ Len(found.main) = Max(get_upstream_count(definition, c.target, "main"), 1)
        /\ Clamp(c.targetInputIndex, Len(found.main)) + 1 \in 1..Len(found.main)
        /\ IF c.target \in DOMAIN after.waiting_execution
           THEN /\ after.waiting_execution[c.target].main = expected
                /\ after.waiting_execution[c.target].received = found.received + 1
                /\ after.waiting_execution[c.target].needed = found.needed
                /\ after.node_execution_stack = ctx.node_execution_stack
           ELSE /\ found.received + 1 >= found.needed
                /\ after.node_execution_stack =
                      Append(ctx.node_execution_stack,
                             ExecuteData(c.target, expected, c.source))

\* C33: every delivery of an item to a target that is not disabled writes the
\* item into the target's buffer at targetInputIndex clamped into the bounds
\* of the buffer and counts one more delivery received; the buffer has
\* max(get_upstream_count(target, main), 1) slots and is allocated by the
\* first delivery; no write falls outside it, whatever the input index.
C33_DeliveryWritesClamped ==
    /\ \A i \in 1..Len(exec_ctx.log) :
          /\ exec_ctx.log[i].list # <<>>
          /\ ~IsDisabled(definition, definition.connections[exec_ctx.log[i].conn].target)
          => exec_ctx.log[i].written
    /\ pc \in {"loop", "await"} =>
          \A k \in ConnIds(definition) :
              ~IsDisabled(definition, definition.connections[k].target) =>
                  \A list \in {<<result_of(definition.connections[k].source)>>, <<None>>} :
                      WritesClamped(exec_ctx, k, list)
    /\ \A n \in DOMAIN exec_ctx.waiting_execution :
          Len(exec_ctx.waiting_execution[n].main)
              = Max(get_upstream_count(definition, n, "main"), 1)


\* ───── output before enqueue ─────
\* the list an output holds for a channel, none when it lacks the channel
ChannelLists(output, type) ==
    {output[i].list : i \in {x \in 1..Len(output) : output[x].type = type}}

\* the events of the run that are terminal events of node n
TerminalsOf(n) == {i \in 1..Len(events) : TerminalOf(i, n)}

\* C34: when an invocation has ended, what it delivered is its output, channel
\* by channel, and the entries it queued name its node as the one that
\* completed the join; an invocation that computed an output (its step
\* returned, or the node is pinned) has left its node with status success and
\* that output in output_data; the terminal event of the invocation is
\* emitted before anything is queued, so every queue entry made by a delivery,
\* and every entry dequeued, has the terminal event of the node that completed
\* its join behind it.
C34_OutputBeforeEnqueue ==
    /\ pc \in {"loop", "done"} /\ Last.kind # "none" =>
          /\ \A i \in 1..Len(Last.delivered) :
                Last.delivered[i].list \in
                    ChannelLists(Last.output,
                        definition.connections[Last.delivered[i].conn].sourceOutputType)
          /\ \A i \in 1..Len(Last.pushed) : Last.pushed[i].source = Last.node
          /\ Last.events # <<>>
          /\ Last.events[Len(Last.events)].event \in TerminalEvents
          /\ Last.events[Len(Last.events)].node_id = Last.node
          /\ pc = "loop" => events[Len(events)] = Last.events[Len(Last.events)]
          /\ Last.kind \in {"success", "pinned"} =>
                /\ nodes[Last.node].status = "success"
                /\ nodes[Last.node].output_data = Last.output
    /\ \A i \in 1..Len(Queue) :
          Queue[i].source # 0 => TerminalsOf(Queue[i].source) # {}
    /\ pc = "await" /\ execute_data.source # 0 =>
          \E i \in TerminalsOf(execute_data.source) : i < Len(events)

\* the run has returned: the last node to run was a join of two main
\* connections, queued by an upstream node that succeeded, and it succeeded
C34_Witness ==
    /\ pc = "done"
    /\ Last.kind = "success"
    /\ Cardinality(MainInputs(definition, Last.node)) = 2
    /\ hist.invoked[Last.node] = 1
    /\ Last.input.source # 0
    /\ nodes[Last.input.source].status = "success"
    /\ Last.input.main[1] = result_of(Last.input.source)


\* ───── cycles ─────
\* no node is disabled and every connection enters the main input
PlainGraph ==
    /\ pc # "new"
    /\ \A n \in definition.nodes : ~IsDisabled(definition, n)
    /\ \A k \in ConnIds(definition) : definition.connections[k].targetInputType = "main"

\* the pops and returns the loop still has before it when every node is
\* dequeued once at most
PopsLeft ==
    2 * (Cardinality(definition.nodes) - hist.steps) + (IF pc = "await" THEN 1 ELSE 0)

\* a step of the loop leaves fewer pops and returns before it, or it is the
\* return of execute()
PlainStep ==
    PlainGraph /\ pc \in {"loop", "await"}
        => \/ PopsLeft' >= 0 /\ PopsLeft' < PopsLeft
           \/ pc' = "done" /\ Queue = <<>>

\* C35: over a definition, cyclic or not, without disabled nodes and with
\* every connection entering the main input, every node is queued at most
\* once, a node on a cycle is never queued and stays idle, and execute()
\* terminates: the loop pops at most once per node, is never stopped with
\* entries in the queue, and every step of it brings the return nearer.
C35_CyclesNeverRun ==
    /\ [](PlainGraph =>
            /\ \A n \in definition.nodes :
                  /\ hist.enqueued[n] <= 1
                  /\ OnCycle(definition, n) =>
                        /\ hist.enqueued[n] = 0
                        /\ hist.dequeued[n] = 0
                        /\ nodes[n].status = "idle"
            /\ hist.steps <= Cardinality(definition.nodes)
            /\ pc = "loop" /\ Queue # <<>> => hist.steps < MaxSteps)
    /\ [][PlainStep]_vars

\* the run has returned: a node that succeeded has delivered into a cycle of
\* two nodes, which are idle, one of them holding the delivery in its buffer
C35_Witness ==
    /\ pc = "done"
    /\ PlainGraph
    /\ \E a, b, c \in definition.nodes :
          /\ b # c
          /\ ~OnCycle(definition, a)
          /\ nodes[a].status = "success"
          /\ OnCycle(definition, b)
          /\ c \in Reach(definition, b) /\ b \in Reach(definition, c)
          /\ b \in DOMAIN exec_ctx.waiting_execution
          /\ exec_ctx.waiting_execution[b].received = 1
          /\ nodes[b].status = "idle" /\ nodes[c].status = "idle"


\* ───── a cycle through a disabled node ─────
\* the definition is s -> d -> b -> d over main, with d disabled and s and b
\* nodes with a step
LoopShape(s, d, b) ==
    /\ pc # "new"
    /\ Cardinality({s, d, b}) = 3
    /\ IsDisabled(definition, d)
    /\ \A n \in {s, b} :
          ~IsDisabled(definition, n) /\ ~IsPinned(definition, n) /\ HasStep(definition, n)
    /\ Cardinality(ConnIds(definition)) = 3
    /\ \A p \in {<<s, d>>, <<d, b>>, <<b, d>>} :
          \E k \in ConnIds(definition) :
              /\ definition.connections[k].source = p[1]
              /\ definition.connections[k].target = p[2]
              /\ definition.connections[k].sourceOutputType = "main"
              /\ definition.connections[k].targetInputType = "main"

Plain(n) ==
    ~IsDisabled(definition, n) /\ ~IsPinned(definition, n) /\ HasStep(definition, n)

\* the only connection into c leaves the error channel of b
OnlyFedByErrorOf(c, b) ==
    /\ Plain(c)
    /\ Plain(b)
    /\ \E k \in Incoming(definition, c) :
          /\ Incoming(definition, c) = {k}
          /\ definition.connections[k].source = b
          /\ definition.connections[k].sourceOutputType = "error"

\* the results of a step that hold nothing but a main channel
MainOnlyResults == {"ned", "null", "emptymain"}

\* the step of node b was called in this run, and every call of it raised
StepRaised(b) == hist.results[b] # <<>> /\ OnlyRaised(b)

\* C37: a node c whose only incoming connection leaves the error channel of
\* node b is no start node and is not seeded; in a run where the step of b
\* raises, c is queued exactly once, its step is called with the payload
\* {error, node} of b, and it has been called exactly once when the run has
\* returned; in a run where the step of b returns a main-only result, c is
\* never queued and its step is never called.
C37_ErrorBranchTarget ==
    pc # "new" =>
        \A c, b \in definition.nodes :
            OnlyFedByErrorOf(c, b) =>
                /\ c \notin StartNodes
                /\ Seeded => c \notin QueuedNodes
                /\ StepRaised(b) =>
                      /\ hist.enqueued[c] = 1
                      /\ hist.invoked[c] <= 1
                      /\ pc = "done" => hist.invoked[c] = 1
                      /\ pc = "await" /\ execute_data.node_id = c =>
                            get_main_input(execute_data)
                                = from_single(Item("error", b, StepMessage))
                /\ hist.results[b] # <<>>
                      /\ (\A i \in 1..Len(hist.results[b]) :
                              hist.results[b][i] \in MainOnlyResults)
                      => hist.enqueued[c] = 0 /\ hist.invoked[c] = 0


\* ───── run data ─────
\* the invocations of node n so far that ended in success or took pinned data
Succeeded(n) ==
    IF IsDisabled(definition, n) THEN 0
    ELSE IF IsPinned(definition, n) THEN hist.dequeued[n]
    ELSE Cardinality({i \in 1..Len(hist.results[n]) :
                         hist.results[n][i] \notin {"raise", "emptymain"}})

\* this step ends an invocation: a handler of the loop that awaits no step,
\* or the handling of a step that returned or raised
EndsInvocation ==
    \/ pc = "loop" /\ pc' = "loop" /\ hist'.steps # hist.steps
    \/ pc = "await" /\ pc' = "loop"

\* what the step that ends an invocation leaves of the node and the run data
FrameOfInvocation ==
    /\ EndsInvocation =>
          LET n == hist'.last.node
              kind == hist'.last.kind
          IN  /\ \A m \in DOMAIN nodes : m # n => nodes'[m] = nodes[m]
              /\ \A m \in Nodes : m # n => exec_ctx'.run_data[m] = exec_ctx.run_data[m]
              /\ kind = "disabled" => nodes'[n] = nodes[n]
              /\ kind \in {"disabled", "error", "unregistered"}
                    => exec_ctx'.run_data[n] = exec_ctx.run_data[n]
              /\ kind = "error" => nodes'[n].status = "error"
              /\ kind = "unregistered" => nodes'[n].status = "skipped"
              /\ kind \in {"success", "pinned"}
                    => exec_ctx'.run_data[n] =
                           Append(exec_ctx.run_data[n],
                                  [status |-> "success", error |-> nodes[n].error])
    /\ ~EndsInvocation /\ pc # "new" => exec_ctx'.run_data = exec_ctx.run_data

\* C38: processing a disabled node leaves its runtime fields alone: a disabled
\* node is idle with no output, no error and no run data throughout; an
\* invocation that ends in error or skipped adds no run data entry; an
\* invocation that ends in success or takes pinned data adds exactly one; so
\* the run data of a node has one entry per success or pinned invocation.
C38_RunDataFrame ==
    /\ [](pc # "new" =>
            \A n \in definition.nodes :
                /\ IsDisabled(definition, n) =>
                      nodes[n] = NewNode /\ exec_ctx.run_data[n] = <<>>
                /\ Len(exec_ctx.run_data[n]) = Succeeded(n)
                /\ \A i \in 1..Len(exec_ctx.run_data[n]) :
                      exec_ctx.run_data[n][i].status = "success")
    /\ [][FrameOfInvocation]_vars

\* the run has returned: a disabled node was dequeued, the step of a node
\* raised and that of another returned; only the last has run data
C38_Witness ==
    /\ pc = "done"
    /\ \E d, b, a \in definition.nodes :
          /\ IsDisabled(definition, d) /\ hist.dequeued[d] >= 1
          /\ nodes[b].status = "error" /\ exec_ctx.run_data[b] = <<>>
          /\ nodes[a].status = "success" /\ Len(exec_ctx.run_data[a]) = 1


\* ───── run ids ─────
\* the first execute() call has created its context
FirstBegun == pc \notin {"new", "idle"}

\* the second execute() call has created its context
SecondBegun == alt.pc # "new"

\* C39: a run id names one call: the ids of two calls on the engine differ, and
\* get_run of the id of a call returns the context that call created, whatever
\* the clock read when the calls began.
C39_RunIdNamesOneCall ==
    /\ FirstBegun /\ SecondBegun => exec_ctx.run_id # alt.exec_ctx.run_id
    /\ FirstBegun => get_run(exec_ctx.run_id) = "first"
    /\ SecondBegun => get_run(alt.exec_ctx.run_id) = "second"

====
